---- MODULE Spec2Model ----
(***************************************************************************)
(* Chrono Farmer: the plot/plant lifecycle engine (PlantSystem), the era   *)
(* travel machine (TimeTravelSystem), the achievement tracker              *)
(* (AchievementSystem) and the part of the state store they read and       *)
(* write.                                                                  *)
(*                                                                         *)
(* Units.  Timestamps and durations are in seconds (1 = 1000 ms of         *)
(* Date.now()).  waterLevel and nutrients are in tenths of a point         *)
(* (1000 = the code's 100), so the decay of 0.5 and 0.3 points per second  *)
(* and the 0.1 change threshold are whole numbers.  The growth multiplier  *)
(* is in tenths (10 = 1.0).  Progress is the exact fraction                *)
(* RawProgressNum / ProgressDen, capped at 1.                              *)
(*                                                                         *)
(* Specifications.  Spec is the plant engine alone, SpecTravel the travel  *)
(* machine alone, SpecFlight both side by side, SpecReentrant the plant    *)
(* engine with listeners that call back into it while updatePlants is      *)
(* suspended in an emit, and SpecPair two runs of the plant engine that    *)
(* share the clock and the player's calls and differ in the ticks.         *)
(* SpecGame is the game as ChronoFarmer.init assembles it, with the        *)
(* achievement listeners and the plot click handler around plantSeed, and  *)
(* SpecRewards the same game's minigame and era-unlock listeners.          *)
(* SpecBus is one topic of an EventBus, SpecStore a StateManager with its   *)
(* history and a caller that keeps a snapshot, SpecBatch a StateManager    *)
(* with subscribers and batched writes, and SpecMatch one call of          *)
(* StateManager.pathMatches.  SpecWait is the EventBus topic with a        *)
(* waitFor promise on it, SpecNotify a StateManager whose subscribers      *)
(* unsubscribe or set while they are notified, and SpecSession the plant   *)
(* engine from the load of a save through the frames of the game loop,     *)
(* with the fairness of a loop that keeps running.                         *)
(***************************************************************************)
EXTENDS Integers, Sequences, FiniteSets, TLC

\* ------------------------------------------------------------------ bounds
\* plots of the farm grid that are modelled (the code has 48)
NumPlots == 1
\* listeners that a run may register on the bus's topic
MaxRegistrations == 3
\* snapshots that the history of the store keeps (the code keeps 50)
historyLimit == 3
\* subscriptions that a run may make to the store
MaxSubscriptions == 1
\* writes (set, flush) of a run of the store with subscribers
MaxWrites == 2
\* batchUpdate calls between two flushes
MaxBatchCalls == 3
\* characters of the paths and of the patterns given to pathMatches
MaxPathLen == 7
MaxPatternLen == 5
\* Date.now() at the start of a run, in seconds; never 0
Epoch == 1000
\* the clock runs from Epoch to Epoch + MaxTime
MaxTime == 30
\* the clock advances in steps of TimeStep seconds
TimeStep == 10
\* seeds of prehistoric-moss that a run may plant
MaxPlantings == 2
\* accelerateGrowth is not called once now - plantedAt would exceed this
MaxElapsed == 40
\* travels that a run with plants may start
MaxFlights == 2
\* update calls that the listeners of one emit make
MaxNested == 1
\* plots of the farm grid in the assembled game, which has no clock
GamePlots == 25
\* minigame:completed events of one run
MaxMinigames == 1

\* --------------------------------------------------------------- constants
UpdateInterval == 1
WaterDecayRate == 5
NutrientDecayRate == 3
DecayThreshold == 1
WaterPerWatering == 300
FullWater == 1000
PlantedWater == 1000
PlantedNutrients == 800
ResidualLevel == 500
InitialMossSeeds == 5
InitialPulses == 100
InitialGrowthMultiplier == 10
TemporalPulseCost == 10
MinTravelInterval == 5
\* denominator of the two clamped factors and of the multiplier: 1000 * 1000 * 10
FactorScale == 10000000
MinFactor == 100
\* init calls per system: registerSystem's and initializeGameSystems' own
Registrations == 2
\* window.getAllEras().length
AllEras == 3
NewGamePulses == 150

Max(a, b) == IF a >= b THEN a ELSE b
Min(a, b) == IF a <= b THEN a ELSE b

PlotIds == 0 .. (NumPlots - 1)
\* a plot id that is in no farm.plots entry
UnknownPlot == NumPlots
Null == 0
NoPlant == "null"

\* window.plantData: growTime in seconds, stages, and the temporal-pulses
\* entry of harvestYield.resources
plantData ==
    ("prehistoric-moss" :> [growTime |-> 30, stages |-> 3, pulses |-> 5, seeds |-> 1]) @@
    ("lotus-egyptian" :> [growTime |-> 45, stages |-> 4, pulses |-> 12, seeds |-> 1])

Species == DOMAIN plantData
\* the species ids that getPlantData knows: the two above and, of the rest of
\* plants.js, the one an achievement hands out
GoldenRose == "golden-rose"
Catalog == Species \cup {GoldenRose}
\* a species id that is in no catalog
UnknownSpecies == "moon-melon"

\* ------------------------------------------------------------------- state
VARIABLES
    now,               \* Date.now()
    plots,             \* farm.plots of the store, by plot id
    activePlants,      \* PlantSystem.activePlants, in insertion order
    seeds,             \* player.inventory.seeds
    pulses,            \* player.inventory.resources.temporal-pulses
    growthMultiplier,  \* PlantSystem.growthConfig.growthMultiplier
    updateTimer,       \* PlantSystem.updateTimer, capped at UpdateInterval
    currentEra,        \* TimeTravelSystem.currentEra
    previousEra,       \* TimeTravelSystem.previousEra
    timeCurrentEra,    \* time.currentEra of the store
    isTraveling,       \* TimeTravelSystem.isTraveling
    travelCooldown,    \* TimeTravelSystem.travelCooldown, in seconds
    unlocked,          \* the eras whose unlocked flag is true
    travelPc,          \* where the travelTo in flight is suspended
    travelTarget,      \* eraId of the travelTo in flight
    flight,            \* the in-flight travel's balance and era at its call
    ret,               \* what the most recent call returned and emitted
    tick,              \* where an updatePlants whose listeners are running stands
    shadow,            \* farm.plots of a second run that misses some ticks
    game,              \* the assembled game: AchievementSystem, the rest of the
                       \* player record, and the plot click in progress
    eventBus,          \* an EventBus: one topic's listeners and the last emission
    stateManager,      \* a StateManager: store, subscriptions, queue and history
    probe              \* the arguments and the result of a pure function's call

plantVars == <<plots, activePlants, seeds, growthMultiplier>>
travelVars == <<currentEra, previousEra, timeCurrentEra, isTraveling, travelCooldown,
                unlocked, travelPc, travelTarget>>
vars == <<now, plots, activePlants, seeds, pulses, growthMultiplier, updateTimer, currentEra,
          previousEra, timeCurrentEra, isTraveling, travelCooldown, unlocked,
          travelPc, travelTarget, flight, ret, tick, shadow, game,
          eventBus, stateManager, probe>>
\* what only the listener, the two-run and the assembled-game specifications change
\* the game's own variables, and those of the two library classes
gameVars == <<now, plots, activePlants, seeds, pulses, growthMultiplier, updateTimer,
              currentEra, previousEra, timeCurrentEra, isTraveling, travelCooldown,
              unlocked, travelPc, travelTarget, flight, ret, tick, shadow, game>>
lib == <<eventBus, stateManager, probe>>
aux == <<tick, shadow, game, lib>>

\* the plot object of StateManager.initializeDefaultState
DefaultPlot ==
    [state |-> "empty", plant |-> NoPlant, waterLevel |-> ResidualLevel,
     nutrients |-> ResidualLevel, plantedAt |-> Null, lastWatered |-> Null,
     growthStage |-> 0]

\* era.unlockRequirement; NoRequirement stands for undefined
NoRequirement == [type |-> "none", plantType |-> "", count |-> 0]

\* one bus emission: the topic, the plot or the era it is about (NoPlot and ""
\* when it has none), and the payload's error text and requirement
NoPlot == 0 - 1

Event(name, plot, error, requirement) ==
    [name |-> name, plot |-> plot, era |-> "", error |-> error,
     requirement |-> requirement]

Ev(name, plot) == Event(name, plot, "", NoRequirement)

EraEvent(name, era, error, requirement) ==
    [name |-> name, plot |-> NoPlot, era |-> era, error |-> error,
     requirement |-> requirement]

\* a returned call: value is "true", "false", "null" or "number" (then num holds
\* it); pulses0, era0 and credited describe a travelTo call: the balance and
\* the era when it was issued and what harvests credited while it was in flight
Ret(op, plot, value, num, events) ==
    [op |-> op, plot |-> plot, era |-> "", value |-> value, num |-> num,
     events |-> events, pulses0 |-> 0, era0 |-> "", credited |-> 0]

EraRet(op, era, value, events, pulses0, era0, credited) ==
    [op |-> op, plot |-> NoPlot, era |-> era, value |-> value, num |-> 0,
     events |-> events, pulses0 |-> pulses0, era0 |-> era0, credited |-> credited]

NoRet == Ret("none", NoPlot, "", 0, <<>>)

NoFlight == [pulses0 |-> 0, era0 |-> "", credited |-> 0, events |-> <<>>]

\* --------------------------------------------------- PlantSystem, per plot
\* updatePlot's { ...plots[index], ...updates }: the fields of updates win
Merge(plot, updates) ==
    LET F(f) == IF f \in DOMAIN updates THEN updates[f] ELSE plot[f]
    IN  [state |-> F("state"), plant |-> F("plant"), waterLevel |-> F("waterLevel"),
         nutrients |-> F("nutrients"), plantedAt |-> F("plantedAt"),
         lastWatered |-> F("lastWatered"), growthStage |-> F("growthStage")]

NoUpdates == [f \in {} |-> 0]

\* numerator of timeSincePlanted / adjustedGrowTime over ProgressDen
RawProgressNum(plot, mult, t) ==
    (t - plot.plantedAt) * Max(MinFactor, plot.waterLevel)
        * Max(MinFactor, plot.nutrients) * mult

ProgressDen(type) == plantData[type].growTime * FactorScale

\* calculateGrowth storing any stage that differs from the stored one
calculateGrowthAnyStage(plot, type, mult, t) ==
    LET den == ProgressDen(type)
        progress == Min(den, RawProgressNum(plot, mult, t))
        newStage == (progress * plantData[type].stages) \div den
    IN  [newStage |-> newStage,
         stageChanged |-> newStage # plot.growthStage,
         isReady |-> progress >= den,
         progress |-> progress]

\* calculateGrowth without the nutrient factor
calculateGrowthNoNutrients(plot, type, mult, t) ==
    LET den == ProgressDen(type)
        progress == Min(den, (t - plot.plantedAt) * Max(MinFactor, plot.waterLevel)
                                 * FullWater * mult)
        newStage == (progress * plantData[type].stages) \div den
    IN  [newStage |-> newStage,
         stageChanged |-> newStage > plot.growthStage,
         isReady |-> progress >= den,
         progress |-> progress]

calculateGrowth(plot, type, mult, t) ==
    LET den == ProgressDen(type)
        progress == Min(den, RawProgressNum(plot, mult, t))
        newStage == (progress * plantData[type].stages) \div den
    IN  [newStage |-> newStage,
         stageChanged |-> newStage > plot.growthStage,
         isReady |-> progress >= den,
         progress |-> progress]

\* one iteration of the loop of updatePlants: the updates object it builds from
\* the plot it read, and the events it emits
PlotTick(plot, id, type, mult, t) ==
    LET sinceWatered == t - (IF plot.lastWatered = Null THEN t ELSE plot.lastWatered)
        newWater == Max(0, plot.waterLevel - sinceWatered * WaterDecayRate)
        waterUp == IF plot.waterLevel > 0 /\ plot.waterLevel - newWater > DecayThreshold
                   THEN "waterLevel" :> newWater ELSE NoUpdates
        sincePlanted == t - (IF plot.plantedAt = Null THEN t ELSE plot.plantedAt)
        newNutrients == Max(0, plot.nutrients - sincePlanted * NutrientDecayRate)
        nutrientUp == IF plot.nutrients > 0 /\ plot.nutrients - newNutrients > DecayThreshold
                      THEN "nutrients" :> newNutrients ELSE NoUpdates
        grows == plot.state \in {"planted", "growing"}
        g == calculateGrowth(plot, type, mult, t)
        stageUp == IF grows /\ g.stageChanged
                   THEN "growthStage" :> g.newStage ELSE NoUpdates
        readyUp == IF grows /\ g.isReady THEN "state" :> "ready" ELSE NoUpdates
    IN  [updates |-> readyUp @@ stageUp @@ nutrientUp @@ waterUp,
         events |-> (IF grows /\ g.stageChanged THEN <<Ev("plant:growth", id)>> ELSE <<>>)
                    \o (IF grows /\ g.isReady THEN <<Ev("plant:ready", id)>> ELSE <<>>),
         regressed |-> grows /\ g.newStage < plot.growthStage]

\* the plot after plantSeed's updatePlot
PlantedPlot(plot, type, t) ==
    Merge(plot, [plant |-> type, state |-> "planted", plantedAt |-> t,
                 lastWatered |-> t, growthStage |-> 0,
                 waterLevel |-> PlantedWater, nutrients |-> PlantedNutrients])

WateredPlot(plot, t) ==
    Merge(plot, [waterLevel |-> Min(FullWater, plot.waterLevel + WaterPerWatering),
                 lastWatered |-> t])

\* a harvest that leaves the water where it was
HarvestedPlotKeepsWater(plot) ==
    Merge(plot, [plant |-> NoPlant, state |-> "empty", plantedAt |-> Null,
                 lastWatered |-> Null, growthStage |-> 0,
                 waterLevel |-> plot.waterLevel, nutrients |-> ResidualLevel])

HarvestedPlot(plot) ==
    Merge(plot, [plant |-> NoPlant, state |-> "empty", plantedAt |-> Null,
                 lastWatered |-> Null, growthStage |-> 0,
                 waterLevel |-> ResidualLevel, nutrients |-> ResidualLevel])

\* ----------------------------------------------------------- activePlants
ActiveIds == {activePlants[i].plotId : i \in DOMAIN activePlants}

ActiveType(id) ==
    LET i == CHOOSE j \in DOMAIN activePlants : activePlants[j].plotId = id
    IN  activePlants[i].type

\* Map.set: a present key keeps its place, a new key goes last
ActiveSet(id, type) ==
    IF id \in ActiveIds
    THEN [i \in DOMAIN activePlants |->
            IF activePlants[i].plotId = id THEN [plotId |-> id, type |-> type]
            ELSE activePlants[i]]
    ELSE Append(activePlants, [plotId |-> id, type |-> type])

ActiveDelete(id) == SelectSeq(activePlants, LAMBDA e : e.plotId # id)

\* --------------------------------------------------- PlantSystem operations
\* resourceBonus of calculateHarvestRewards, in percent: Math.random() * 0.5 + 0.75
BonusPercents == {75, 100, 124}

\* a harvest that lands while a travel is in flight is noted in flight.credited
Credit(amount) ==
    /\ pulses' = pulses + amount
    /\ flight' = IF travelPc # "idle"
                 THEN [flight EXCEPT !.credited = @ + amount] ELSE flight

\* stateManager.get('player.inventory.seeds.<id>', 0)
SeedCount(seedType) == IF seedType \in DOMAIN seeds THEN seeds[seedType] ELSE 0

\* the engine-only specifications stop planting after MaxPlantings seeds; the
\* assembled game is bounded by its plots instead
PlantingsLeft(seedType) ==
    game.run # "none" \/ seeds[seedType] + MaxPlantings > InitialMossSeeds

\* plantSeed that plants the plot before it looks at the seed count
plantSeedBeforeSeedCheck(plotId, seedType) ==
    /\ IF plotId \notin DOMAIN plots \/ plots[plotId].state # "empty"
       THEN /\ ret' = Ret("plantSeed", plotId, "false", 0,
                          <<Event("plant:error", plotId, "Plot ocupado", NoRequirement)>>)
            /\ UNCHANGED plantVars
       ELSE IF SeedCount(seedType) <= 0
       THEN /\ ret' = Ret("plantSeed", plotId, "false", 0,
                          <<Event("plant:error", plotId, "Sin semillas", NoRequirement)>>)
            /\ plots' = [plots EXCEPT ![plotId] = PlantedPlot(@, seedType, now)]
            /\ UNCHANGED <<activePlants, seeds, growthMultiplier>>
       ELSE IF seedType \notin Catalog
       THEN /\ ret' = Ret("plantSeed", plotId, "false", 0, <<>>)
            /\ UNCHANGED plantVars
       ELSE /\ PlantingsLeft(seedType)
            /\ plots' = [plots EXCEPT ![plotId] = PlantedPlot(@, seedType, now)]
            /\ activePlants' = ActiveSet(plotId, seedType)
            /\ seeds' = [seeds EXCEPT ![seedType] = @ - 1]
            /\ ret' = Ret("plantSeed", plotId, "true", 0, <<Ev("plant:planted", plotId)>>)
            /\ UNCHANGED growthMultiplier
    /\ UNCHANGED <<now, updateTimer, pulses, flight, travelVars>>

plantSeed(plotId, seedType) ==
    /\ IF plotId \notin DOMAIN plots \/ plots[plotId].state # "empty"
       THEN /\ ret' = Ret("plantSeed", plotId, "false", 0,
                          <<Event("plant:error", plotId, "Plot ocupado", NoRequirement)>>)
            /\ UNCHANGED plantVars
       ELSE IF SeedCount(seedType) <= 0
       THEN /\ ret' = Ret("plantSeed", plotId, "false", 0,
                          <<Event("plant:error", plotId, "Sin semillas", NoRequirement)>>)
            /\ UNCHANGED plantVars
       ELSE IF seedType \notin Catalog
       THEN /\ ret' = Ret("plantSeed", plotId, "false", 0, <<>>)
            /\ UNCHANGED plantVars
       ELSE /\ PlantingsLeft(seedType)
            /\ plots' = [plots EXCEPT ![plotId] = PlantedPlot(@, seedType, now)]
            /\ activePlants' = ActiveSet(plotId, seedType)
            /\ seeds' = [seeds EXCEPT ![seedType] = @ - 1]
            /\ ret' = Ret("plantSeed", plotId, "true", 0, <<Ev("plant:planted", plotId)>>)
            /\ UNCHANGED growthMultiplier
    /\ UNCHANGED <<now, updateTimer, pulses, flight, travelVars>>

waterPlant(plotId) ==
    /\ IF plotId \notin PlotIds \/ plots[plotId].plant = NoPlant
          \/ plots[plotId].state = "empty"
       THEN /\ ret' = Ret("waterPlant", plotId, "false", 0, <<>>)
            /\ UNCHANGED plots
       ELSE /\ plots' = [plots EXCEPT ![plotId] = WateredPlot(@, now)]
            /\ ret' = Ret("waterPlant", plotId, "true", 0, <<Ev("plant:watered", plotId)>>)
    /\ UNCHANGED <<now, activePlants, seeds, growthMultiplier, updateTimer, pulses, flight,
                   travelVars>>

\* Math.ceil in the place of Math.floor
HarvestPulsesCeil(type, bonus) == (plantData[type].pulses * bonus + 99) \div 100

\* Math.floor(amount * resourceBonus) for the temporal-pulses of the yield
HarvestPulses(type, bonus) == (plantData[type].pulses * bonus) \div 100

harvestPlant(plotId, bonus) ==
    /\ IF plotId \notin PlotIds \/ plots[plotId].plant = NoPlant
          \/ plots[plotId].state # "ready"
       THEN /\ ret' = Ret("harvestPlant", plotId, "false", 0,
                          <<Event("plant:error", plotId, "Planta no lista", NoRequirement)>>)
            /\ UNCHANGED <<plots, activePlants, pulses, flight>>
       ELSE /\ Credit(HarvestPulses(plots[plotId].plant, bonus))
            /\ plots' = [plots EXCEPT ![plotId] = HarvestedPlot(@)]
            /\ activePlants' = ActiveDelete(plotId)
            /\ ret' = Ret("harvestPlant", plotId, "true",
                          HarvestPulses(plots[plotId].plant, bonus),
                          <<Ev("plant:harvested", plotId), Ev("notification:show", plotId)>>)
    /\ UNCHANGED <<now, seeds, growthMultiplier, updateTimer, travelVars>>

\* Math.min(100, (elapsed / growTime) * 100) as the numerator of a fraction over
\* growTime: the reported percentage times growTime
AcceleratedPercent(type, elapsed) ==
    Min(100 * plantData[type].growTime, 100 * elapsed)

accelerateGrowth(plotId, duration) ==
    /\ IF plotId \notin PlotIds \/ plots[plotId].plant = NoPlant
       THEN /\ ret' = Ret("accelerateGrowth", plotId, "null", 0, <<>>)
            /\ UNCHANGED plots
       ELSE LET plot == plots[plotId]
                newPlantedAt == (IF plot.plantedAt = Null THEN now ELSE plot.plantedAt)
                                    - duration
            IN  /\ now - newPlantedAt <= MaxElapsed
                /\ plots' = [plots EXCEPT ![plotId] = Merge(@, [plantedAt |-> newPlantedAt])]
                /\ ret' = Ret("accelerateGrowth", plotId, "number",
                              AcceleratedPercent(plot.plant, now - newPlantedAt),
                              <<Ev("plant:accelerated", plotId)>>)
    /\ UNCHANGED <<now, activePlants, seeds, growthMultiplier, updateTimer, pulses, flight,
                   travelVars>>

\* the loop of updatePlants over the entries from position i on, each plot read
\* from and written back to ps
RECURSIVE TickFrom(_, _, _)
TickFrom(ps, i, t) ==
    IF i > Len(activePlants) THEN [plots |-> ps, events |-> <<>>, regressed |-> {}]
    ELSE LET id == activePlants[i].plotId
             r == PlotTick(ps[id], id, activePlants[i].type, growthMultiplier, t)
             rest == TickFrom([ps EXCEPT ![id] = Merge(@, r.updates)], i + 1, t)
         IN  [plots |-> rest.plots, events |-> r.events \o rest.events,
              regressed |-> (IF r.regressed THEN {id} ELSE {}) \cup rest.regressed]

\* updatePlants, with no listener calling back into the engine
updatePlants ==
    LET r == TickFrom(plots, 1, now)
    IN  /\ plots' = r.plots
        /\ ret' = Ret("updatePlants", NoPlot, "", Cardinality(r.regressed), r.events)
        /\ UNCHANGED <<now, activePlants, seeds, growthMultiplier, pulses, flight,
                       travelVars>>

\* PlantSystem.update in a frame of the game loop: the tick runs once the frames'
\* deltaTime has added up to updateInterval
plantUpdate ==
    /\ updateTimer >= UpdateInterval
    /\ updatePlants
    /\ updateTimer' = 0

\* onEraChanged, the handler of era:changed
EraMultipliers == ("prehistoric" :> 8) @@ ("egyptian" :> 10) @@ ("future" :> 15)

onEraChanged(newEra) ==
    /\ growthMultiplier' = IF newEra \in DOMAIN EraMultipliers
                           THEN EraMultipliers[newEra] ELSE 10
    /\ ret' = NoRet
    /\ UNCHANGED <<now, plots, activePlants, seeds, updateTimer, pulses, flight,
                   travelVars>>

\* wall-clock time passes between two calls; the frames of the game loop add
\* the same time to updateTimer
AdvanceTime ==
    /\ now + TimeStep <= Epoch + MaxTime
    /\ now' = now + TimeStep
    /\ updateTimer' = Min(UpdateInterval, updateTimer + TimeStep)
    /\ ret' = NoRet
    /\ UNCHANGED <<plantVars, pulses, flight, travelVars>>

\* ------------------------------------------------------- TimeTravelSystem
\* initializeEras: the unlocked flag at construction, the unlock requirement
\* and effects.growthMultiplier in tenths
eras ==
    ("prehistoric" :> [unlocked |-> TRUE, unlockRequirement |-> NoRequirement,
                       growthMultiplier |-> 8]) @@
    ("egyptian" :> [unlocked |-> FALSE,
                    unlockRequirement |-> [type |-> "harvest",
                                           plantType |-> "prehistoric-moss", count |-> 10],
                    growthMultiplier |-> 10]) @@
    ("future" :> [unlocked |-> FALSE,
                  unlockRequirement |-> [type |-> "harvest",
                                         plantType |-> "lotus-egyptian", count |-> 15],
                  growthMultiplier |-> 15])

EraIds == DOMAIN eras
\* an id that eras.get does not know
UnknownEra == "atlantis"

\* travelTo without the isTraveling check
travelToWhileTraveling(eraId) ==
    LET Reject(events) ==
            /\ ret' = EraRet("travelTo", eraId, "false", events, pulses, currentEra, 0)
            /\ UNCHANGED <<pulses, flight, travelVars>>
    IN  /\ IF currentEra = eraId THEN Reject(<<>>)
           ELSE IF eraId \notin EraIds THEN Reject(<<>>)
           ELSE IF eraId \notin unlocked
           THEN Reject(<<EraEvent("timetravel:locked", eraId, "",
                                  eras[eraId].unlockRequirement)>>)
           ELSE IF travelCooldown > 0 THEN Reject(<<>>)
           ELSE IF pulses < TemporalPulseCost
           THEN Reject(<<EraEvent("timetravel:insufficient-resources", eraId, "",
                                  NoRequirement)>>)
           ELSE /\ isTraveling' = TRUE
                /\ pulses' = pulses - TemporalPulseCost
                /\ travelPc' = "effects"
                /\ travelTarget' = eraId
                /\ flight' = [pulses0 |-> pulses, era0 |-> currentEra, credited |-> 0,
                              events |-> <<EraEvent("timetravel:start", eraId, "",
                                                    NoRequirement)>>]
                /\ ret' = NoRet
                /\ UNCHANGED <<currentEra, previousEra, timeCurrentEra, travelCooldown,
                               unlocked>>
        /\ UNCHANGED <<now, updateTimer, plantVars>>

\* travelTo without the unlocked check
travelToLocked(eraId) ==
    LET Reject(events) ==
            /\ ret' = EraRet("travelTo", eraId, "false", events, pulses, currentEra, 0)
            /\ UNCHANGED <<pulses, flight, travelVars>>
    IN  /\ IF isTraveling THEN Reject(<<>>)
           ELSE IF currentEra = eraId THEN Reject(<<>>)
           ELSE IF eraId \notin EraIds THEN Reject(<<>>)
           ELSE IF travelCooldown > 0 THEN Reject(<<>>)
           ELSE IF pulses < TemporalPulseCost
           THEN Reject(<<EraEvent("timetravel:insufficient-resources", eraId, "",
                                  NoRequirement)>>)
           ELSE /\ isTraveling' = TRUE
                /\ pulses' = pulses - TemporalPulseCost
                /\ travelPc' = "effects"
                /\ travelTarget' = eraId
                /\ flight' = [pulses0 |-> pulses, era0 |-> currentEra, credited |-> 0,
                              events |-> <<EraEvent("timetravel:start", eraId, "",
                                                    NoRequirement)>>]
                /\ ret' = NoRet
                /\ UNCHANGED <<currentEra, previousEra, timeCurrentEra, travelCooldown,
                               unlocked>>
        /\ UNCHANGED <<now, updateTimer, plantVars>>

\* travelTo up to its first await: the checks, the deduction and timetravel:start
travelTo(eraId) ==
    LET Reject(events) ==
            /\ ret' = EraRet("travelTo", eraId, "false", events, pulses, currentEra, 0)
            /\ UNCHANGED <<pulses, flight, travelVars>>
    IN  /\ IF isTraveling THEN Reject(<<>>)
           ELSE IF currentEra = eraId THEN Reject(<<>>)
           ELSE IF eraId \notin EraIds THEN Reject(<<>>)
           ELSE IF eraId \notin unlocked
           THEN Reject(<<EraEvent("timetravel:locked", eraId, "",
                                  eras[eraId].unlockRequirement)>>)
           ELSE IF travelCooldown > 0 THEN Reject(<<>>)
           ELSE IF pulses < TemporalPulseCost
           THEN Reject(<<EraEvent("timetravel:insufficient-resources", eraId, "",
                                  NoRequirement)>>)
           ELSE /\ isTraveling' = TRUE
                /\ pulses' = pulses - TemporalPulseCost
                /\ travelPc' = "effects"
                /\ travelTarget' = eraId
                /\ flight' = [pulses0 |-> pulses, era0 |-> currentEra, credited |-> 0,
                              events |-> <<EraEvent("timetravel:start", eraId, "",
                                                    NoRequirement)>>]
                /\ ret' = NoRet
                /\ UNCHANGED <<currentEra, previousEra, timeCurrentEra, travelCooldown,
                               unlocked>>
        /\ UNCHANGED <<now, updateTimer, plantVars>>

\* what the call in flight returns, with the events it emitted
Returned(value, lastEvent) ==
    EraRet("travelTo", travelTarget, value, Append(flight.events, lastEvent),
           flight.pulses0, flight.era0, flight.credited)

\* the finally block, and the end of the call
TravelEnds ==
    /\ isTraveling' = FALSE
    /\ travelPc' = "idle"
    /\ travelTarget' = ""
    /\ flight' = NoFlight

\* a commit that writes back the balance it computed before the await
TravelCommitStale ==
    /\ travelPc = "effects"
    /\ previousEra' = currentEra
    /\ currentEra' = travelTarget
    /\ timeCurrentEra' = travelTarget
    /\ growthMultiplier' = eras[travelTarget].growthMultiplier
    /\ travelCooldown' = MinTravelInterval
    /\ pulses' = flight.pulses0 - TemporalPulseCost
    /\ ret' = Returned("true", EraEvent("timetravel:success", travelTarget, "",
                                        NoRequirement))
    /\ TravelEnds
    /\ UNCHANGED <<now, updateTimer, plots, activePlants, seeds, unlocked>>

\* the effects resolve and the rest of the try block runs to return true
TravelCommit ==
    /\ travelPc = "effects"
    /\ previousEra' = currentEra
    /\ currentEra' = travelTarget
    /\ timeCurrentEra' = travelTarget
    /\ growthMultiplier' = eras[travelTarget].growthMultiplier
    /\ travelCooldown' = MinTravelInterval
    /\ ret' = Returned("true", EraEvent("timetravel:success", travelTarget, "",
                                        NoRequirement))
    /\ TravelEnds
    /\ UNCHANGED <<now, updateTimer, plots, activePlants, seeds, pulses, unlocked>>

\* playTravelEffects rejects (a renderer or audio call throws): the catch block
TravelEffectsError ==
    /\ travelPc = "effects"
    /\ ret' = Returned("false", EraEvent("timetravel:error", travelTarget, "effects",
                                         NoRequirement))
    /\ TravelEnds
    /\ UNCHANGED <<now, updateTimer, plantVars, pulses, currentEra, previousEra, timeCurrentEra,
                   travelCooldown, unlocked>>

\* the era is switched, then playMusic, playAmbient or applyEraTheme throws
TravelCommitError ==
    /\ travelPc = "effects"
    /\ previousEra' = currentEra
    /\ currentEra' = travelTarget
    /\ timeCurrentEra' = travelTarget
    /\ growthMultiplier' = eras[travelTarget].growthMultiplier
    /\ ret' = Returned("false", EraEvent("timetravel:error", travelTarget, "commit",
                                         NoRequirement))
    /\ TravelEnds
    /\ UNCHANGED <<now, updateTimer, plots, activePlants, seeds, pulses, travelCooldown, unlocked>>

\* unlockEra without the return on era.unlocked
unlockEraUnguarded(eraId) ==
    /\ IF eraId \notin EraIds
       THEN /\ ret' = EraRet("unlockEra", eraId, "", <<>>, 0, "", 0)
            /\ UNCHANGED unlocked
       ELSE /\ unlocked' = unlocked \cup {eraId}
            /\ ret' = EraRet("unlockEra", eraId, "",
                             <<EraEvent("timetravel:era-unlocked", eraId, "", NoRequirement),
                               EraEvent("notification:show", eraId, "", NoRequirement)>>,
                             0, "", 0)
    /\ UNCHANGED <<now, updateTimer, plantVars, pulses, flight, currentEra, previousEra,
                   timeCurrentEra, isTraveling, travelCooldown, travelPc, travelTarget>>

unlockEra(eraId) ==
    /\ IF eraId \notin EraIds \/ eraId \in unlocked
       THEN /\ ret' = EraRet("unlockEra", eraId, "", <<>>, 0, "", 0)
            /\ UNCHANGED unlocked
       ELSE /\ unlocked' = unlocked \cup {eraId}
            /\ ret' = EraRet("unlockEra", eraId, "",
                             <<EraEvent("timetravel:era-unlocked", eraId, "", NoRequirement),
                               EraEvent("notification:show", eraId, "", NoRequirement)>>,
                             0, "", 0)
    /\ UNCHANGED <<now, updateTimer, plantVars, pulses, flight, currentEra, previousEra,
                   timeCurrentEra, isTraveling, travelCooldown, travelPc, travelTarget>>

\* deltaTime values, in seconds, that the game loop feeds to update
DeltaTimes == {2, 5}

\* TimeTravelSystem.update
\* update without the floor of 0
travelUpdateUnclamped(deltaTime) ==
    /\ travelCooldown > 0
    /\ travelCooldown' = travelCooldown - deltaTime
    /\ ret' = NoRet
    /\ UNCHANGED <<now, updateTimer, plantVars, pulses, flight, currentEra, previousEra,
                   timeCurrentEra, isTraveling, unlocked, travelPc, travelTarget>>

travelUpdate(deltaTime) ==
    /\ travelCooldown > 0
    /\ travelCooldown' = Max(0, travelCooldown - deltaTime)
    /\ ret' = NoRet
    /\ UNCHANGED <<now, updateTimer, plantVars, pulses, flight, currentEra, previousEra,
                   timeCurrentEra, isTraveling, unlocked, travelPc, travelTarget>>

\* ------------------------------------- updatePlants with listeners running
NoTick == [pc |-> "idle", pos |-> 0, plotId |-> NoPlot, updates |-> NoUpdates, nested |-> 0]

\* a call from outside the engine: from the game loop, or from a listener of
\* plant:growth or plant:ready while the tick that emitted is suspended
Callable == tick.pc \in {"idle", "emitted"}

\* update finds the timer due and enters the loop of updatePlants
TickBegin ==
    /\ tick.pc = "idle"
    /\ updateTimer >= UpdateInterval
    /\ tick' = [NoTick EXCEPT !.pc = "loop"]
    /\ ret' = NoRet
    /\ UNCHANGED <<now, updateTimer, plantVars, pulses, flight, travelVars, shadow>>

\* one iteration up to its last emit: the plot is read, the updates are built
\* from it, and with no event to emit they are written back at once
TickVisit ==
    /\ tick.pc = "loop"
    /\ tick.pos < Len(activePlants)
    /\ LET id == activePlants[tick.pos + 1].plotId
           r == PlotTick(plots[id], id, activePlants[tick.pos + 1].type,
                         growthMultiplier, now)
       IN  IF r.events = <<>>
           THEN /\ plots' = [plots EXCEPT ![id] = Merge(@, r.updates)]
                /\ tick' = [tick EXCEPT !.pos = @ + 1]
           ELSE /\ plots' = plots
                /\ tick' = [pc |-> "emitted", pos |-> tick.pos + 1, plotId |-> id,
                            updates |-> r.updates, nested |-> 0]
    /\ ret' = NoRet
    /\ UNCHANGED <<now, updateTimer, activePlants, seeds, growthMultiplier, pulses, flight,
                   travelVars, shadow>>

\* the listeners have returned: updatePlot merges the updates built before the
\* emit into the plot as it is now
TickCommit ==
    /\ tick.pc = "emitted"
    /\ plots' = [plots EXCEPT ![tick.plotId] = Merge(@, tick.updates)]
    /\ tick' = [NoTick EXCEPT !.pc = "loop", !.pos = tick.pos]
    /\ ret' = NoRet
    /\ UNCHANGED <<now, updateTimer, activePlants, seeds, growthMultiplier, pulses, flight,
                   travelVars, shadow>>

\* the Map iterator is exhausted; update resets the timer
TickEnd ==
    /\ tick.pc = "loop"
    /\ tick.pos >= Len(activePlants)
    /\ tick' = NoTick
    /\ updateTimer' = 0
    /\ ret' = NoRet
    /\ UNCHANGED <<now, plantVars, pulses, flight, travelVars, shadow>>

\* the position of the Map iterator after activePlants.delete(id): the entries
\* behind a removed one move up
PosAfterDelete(id) ==
    IF \E j \in 1 .. tick.pos : activePlants[j].plotId = id THEN tick.pos - 1 ELSE tick.pos

\* harvestPlant called by a listener, or between ticks
ListenerHarvest(plotId, bonus) ==
    /\ Callable
    /\ harvestPlant(plotId, bonus)
    /\ tick' = [tick EXCEPT !.pos = IF plotId \in PlotIds THEN PosAfterDelete(plotId) ELSE @]
    /\ UNCHANGED shadow

\* update(1000) called by a listener: the nested updatePlants runs to its end
ListenerUpdate ==
    /\ tick.pc = "emitted"
    /\ tick.nested < MaxNested
    /\ updatePlants
    /\ updateTimer' = 0
    /\ tick' = [tick EXCEPT !.nested = @ + 1]
    /\ UNCHANGED shadow

\* ------------------------------------------------- two runs, one missing ticks
\* the same call in the second run
PairPlantSeed(plotId, seedType) ==
    /\ plantSeed(plotId, seedType)
    /\ shadow' = IF ret'.value = "true"
                 THEN [shadow EXCEPT ![plotId] = PlantedPlot(@, seedType, now)]
                 ELSE shadow
    /\ UNCHANGED tick

PairWaterPlant(plotId) ==
    /\ waterPlant(plotId)
    /\ shadow' = IF ret'.value = "true"
                 THEN [shadow EXCEPT ![plotId] = WateredPlot(@, now)]
                 ELSE shadow
    /\ UNCHANGED tick

PairAccelerateGrowth(plotId, duration) ==
    /\ accelerateGrowth(plotId, duration)
    /\ shadow' = IF ret'.value = "number"
                 THEN [shadow EXCEPT ![plotId] =
                          Merge(@, [plantedAt |-> plots'[plotId].plantedAt])]
                 ELSE shadow
    /\ UNCHANGED tick

\* the first run ticks; the second run's frame is missed
TickFirst ==
    /\ plantUpdate
    /\ UNCHANGED aux

\* both runs tick
TickBoth ==
    /\ plantUpdate
    /\ shadow' = TickFrom(shadow, 1, now).plots
    /\ UNCHANGED tick

\* ------------------------------------------------------ AchievementSystem
\* initializeAchievements: the requirement (type, and count or amount) and the
\* reward (experience, temporal-pulses, time-essence, golden-rose seeds)
achievements ==
    ("first-plant" :> [type |-> "plant", count |-> 1, amount |-> 0, experience |-> 10,
                       pulses |-> 20, essence |-> 0, goldenRose |-> 0]) @@
    ("green-thumb" :> [type |-> "plant", count |-> 50, amount |-> 0, experience |-> 100,
                       pulses |-> 0, essence |-> 0, goldenRose |-> 1]) @@
    ("time-traveler" :> [type |-> "visit-all-eras", count |-> 0, amount |-> 0,
                         experience |-> 200, pulses |-> 0, essence |-> 1,
                         goldenRose |-> 0]) @@
    ("wealthy-farmer" :> [type |-> "resource", count |-> 0, amount |-> 1000,
                          experience |-> 150, pulses |-> 200, essence |-> 0,
                          goldenRose |-> 0])

AchievementIds == DOMAIN achievements
\* the iteration order of the achievements Map
AchievementOrder == <<"first-plant", "green-thumb", "time-traveler", "wealthy-farmer">>

\* what a listener of achievement:unlocked reads from the store while the emit
\* runs; id is "" while nothing has unlocked
NoUnlock == [id |-> "", experience |-> 0, pulses |-> 0, essence |-> 0, goldenRose |-> 0]

\* game.run is "none" outside the assembled game, "new" after setupNewGame and
\* "restored" after loadGameData found a save.  pc, caller, plotId, seedType
\* and seeds0 describe the plantSeed call in progress.  applied counts, per
\* achievement, the applyReward calls that have reached this inventory.
NoGame ==
    [run |-> "none", pc |-> "idle", caller |-> "", plotId |-> NoPlot, seedType |-> "",
     seeds0 |-> 0, progress |-> 0, unlockedAchievements |-> {},
     playerAchievements |-> {}, experience |-> 0, essence |-> 0,
     unlockedEras |-> <<"prehistoric">>, applied |-> [a \in AchievementIds |-> 0],
     unlock |-> NoUnlock, minigames |-> 0]

\* the part of the store and of AchievementSystem that a listener run works on
AchievementState ==
    [progress |-> game.progress, unlockedAchievements |-> game.unlockedAchievements,
     playerAchievements |-> game.playerAchievements, experience |-> game.experience,
     essence |-> game.essence, unlockedEras |-> game.unlockedEras,
     applied |-> game.applied, unlock |-> game.unlock, pulses |-> pulses,
     seeds |-> seeds, events |-> <<>>]

\* stateManager.set('player.inventory.seeds.<id>', get(..., 0) + count)
AddSeeds(ss, seedType, count) ==
    IF seedType \in DOMAIN ss THEN [ss EXCEPT ![seedType] = @ + count]
    ELSE ss @@ (seedType :> count)

isAchievementUnlocked(a, id) ==
    LET req == achievements[id]
    IN  CASE req.type = "plant" -> a.progress >= req.count
          [] req.type = "resource" -> a.pulses >= req.amount
          [] req.type = "visit-all-eras" -> Len(a.unlockedEras) >= AllEras
          [] OTHER -> FALSE

\* what the listener of achievement:unlocked finds in the store
Seen(a, id) ==
    [id |-> id, experience |-> a.experience, pulses |-> a.pulses, essence |-> a.essence,
     goldenRose |-> IF GoldenRose \in DOMAIN a.seeds THEN a.seeds[GoldenRose] ELSE 0]

applyReward(a, id) ==
    LET reward == achievements[id]
    IN  [a EXCEPT !.experience = @ + reward.experience,
                  !.pulses = @ + reward.pulses,
                  !.essence = @ + reward.essence,
                  !.seeds = IF reward.goldenRose > 0
                            THEN AddSeeds(@, GoldenRose, reward.goldenRose) ELSE @,
                  !.applied = [@ EXCEPT ![id] = @ + 1]]

\* unlockAchievement: the set, the store's list (rewritten from the set), the
\* emit, and then the reward
unlockAchievement(a, id) ==
    LET recorded == [a EXCEPT !.unlockedAchievements = @ \cup {id},
                              !.playerAchievements = a.unlockedAchievements \cup {id}]
        notified == [recorded EXCEPT !.unlock = Seen(recorded, id),
                                     !.events = Append(@, Ev("achievement:unlocked", NoPlot))]
    IN  applyReward(notified, id)

RECURSIVE checkAchievementsFrom(_, _)
checkAchievementsFrom(a, i) ==
    IF i > Len(AchievementOrder) THEN a
    ELSE LET id == AchievementOrder[i]
         IN  IF id \notin a.unlockedAchievements /\ isAchievementUnlocked(a, id)
             THEN checkAchievementsFrom(unlockAchievement(a, id), i + 1)
             ELSE checkAchievementsFrom(a, i + 1)

checkAchievements(a) == checkAchievementsFrom(a, 1)

\* updateProgress('plant', 1)
updateProgress(a) == checkAchievements([a EXCEPT !.progress = @ + 1])

\* emit('plant:planted') reaching the listeners that the init calls registered
RECURSIVE PlantedListeners(_, _)
PlantedListeners(a, n) ==
    IF n = 0 THEN a ELSE PlantedListeners(updateProgress(a), n - 1)

\* the achievement state written back to the store and to AchievementSystem
WriteBack(a) ==
    /\ pulses' = a.pulses
    /\ seeds' = a.seeds
    /\ game' = [game EXCEPT !.progress = a.progress,
                            !.unlockedAchievements = a.unlockedAchievements,
                            !.playerAchievements = a.playerAchievements,
                            !.experience = a.experience,
                            !.essence = a.essence,
                            !.applied = a.applied,
                            !.unlock = a.unlock,
                            !.pc = IF game.caller = "click" THEN "consume" ELSE "idle"]

\* ------------------------------------------------------ the assembled game
\* the elements of a set of era ids in the order of the eras Map
RECURSIVE SetToSeq(_)
SetToSeq(S) ==
    IF S = {} THEN <<>>
    ELSE LET e == CHOOSE x \in S : \A y \in S : x = "egyptian" \/ y # "egyptian"
         IN  <<e>> \o SetToSeq(S \ {e})

GamePlotIds == 0 .. (GamePlots - 1)
UnknownGamePlot == GamePlots

\* plantSeed up to its emit of plant:planted, called by handlePlantAction
\* ("click") or by anyone else ("direct"); a failed call is over at once
gamePlantSeed(plotId, seedType, caller) ==
    /\ game.pc = "idle"
    /\ plantSeed(plotId, seedType)
    /\ game' = IF ret'.value = "true"
               THEN [game EXCEPT !.pc = "emit", !.caller = caller, !.plotId = plotId,
                                 !.seedType = seedType, !.seeds0 = SeedCount(seedType)]
               ELSE [game EXCEPT !.caller = caller, !.plotId = plotId,
                                 !.seedType = seedType, !.seeds0 = SeedCount(seedType)]
    /\ UNCHANGED <<tick, shadow>>

\* the listeners of plant:planted run and plantSeed returns true
onPlantPlanted ==
    /\ game.pc = "emit"
    /\ LET a == PlantedListeners(AchievementState, Registrations)
       IN  /\ WriteBack(a)
           /\ ret' = [ret EXCEPT !.events = @ \o a.events]
    /\ UNCHANGED <<now, updateTimer, plots, activePlants, growthMultiplier, flight,
                   travelVars, tick, shadow>>

\* handlePlantAction after plantSeed returned true
consumeSeed ==
    /\ game.pc = "consume"
    /\ seeds' = [seeds EXCEPT ![game.seedType] = @ - 1]
    /\ game' = [game EXCEPT !.pc = "idle"]
    /\ UNCHANGED <<now, updateTimer, plots, activePlants, growthMultiplier, pulses, flight,
                   travelVars, ret, tick, shadow>>

\* PrehistoryMinigame.calculateRewards: the prehistoric-moss seeds and the
\* temporal-pulses for a score
MinigameRewards(score) == [seeds |-> score \div 50, pulses |-> score \div 20]
\* rewards: null of a lost minigame
NoRewards == [seeds |-> 0, pulses |-> 0]
Scores == {100}

\* applyMinigameRewards
applyMinigameRewards(inv, rewards) ==
    [seeds |-> AddSeeds(inv.seeds, "prehistoric-moss", rewards.seeds),
     pulses |-> inv.pulses + rewards.pulses]

\* onMinigameCompleted: no era has a requirement of type minigame, so the loop
\* over the eras unlocks nothing
onMinigameCompleted(inv, success, rewards) ==
    IF success THEN applyMinigameRewards(inv, rewards) ELSE inv

RECURSIVE MinigameListeners(_, _, _, _)
MinigameListeners(inv, success, rewards, n) ==
    IF n = 0 THEN inv
    ELSE MinigameListeners(onMinigameCompleted(inv, success, rewards), success, rewards, n - 1)

\* emit('minigame:completed', {minigame, success, score, rewards}); ret keeps
\* the balance before the emit and the rewards the event carries: the seeds
\* in num, the temporal-pulses in credited
minigameCompleted(success, rewards) ==
    /\ game.pc = "idle"
    /\ game.minigames < MaxMinigames
    /\ LET inv == MinigameListeners([seeds |-> seeds, pulses |-> pulses], success, rewards,
                                    Registrations)
       IN  /\ seeds' = inv.seeds
           /\ pulses' = inv.pulses
    /\ game' = [game EXCEPT !.minigames = @ + 1]
    /\ ret' = [EraRet("minigame:completed", "", IF success THEN "true" ELSE "false", <<>>,
                      pulses, "", rewards.pulses) EXCEPT !.num = rewards.seeds]
    /\ UNCHANGED <<now, updateTimer, plots, activePlants, growthMultiplier, flight,
                   travelVars, tick, shadow>>

\* unlockEra with its write of player.unlockedEras
gameUnlockEra(eraId) ==
    /\ game.pc = "idle"
    /\ unlockEra(eraId)
    /\ game' = IF eraId \in EraIds /\ eraId \notin unlocked
                  /\ \A i \in DOMAIN game.unlockedEras : game.unlockedEras[i] # eraId
               THEN [game EXCEPT !.unlockedEras = Append(@, eraId)]
               ELSE game
    /\ UNCHANGED <<tick, shadow>>

\* getHarvestCount: player.harvestStats is written nowhere, so every count
\* reads as the default
getHarvestCount(plantType) == 0

\* the eras that checkEraUnlocks finds due after a harvest of plantType
DueEras(plantType) ==
    {e \in EraIds : /\ e \notin unlocked
                    /\ eras[e].unlockRequirement.type = "harvest"
                    /\ eras[e].unlockRequirement.plantType = plantType
                    /\ getHarvestCount(plantType) >= eras[e].unlockRequirement.count}

\* checkEraUnlocks as the listeners of plant:harvested run it: each due era is
\* unlocked as unlockEra does
checkEraUnlocks(plantType) ==
    /\ game.pc = "idle"
    /\ unlocked' = unlocked \cup DueEras(plantType)
    /\ game' = [game EXCEPT !.unlockedEras =
                   @ \o SetToSeq({e \in DueEras(plantType) :
                                    \A i \in DOMAIN @ : @[i] # e})]
    /\ ret' = EraRet("checkEraUnlocks", "", "",
                     [i \in 1 .. Cardinality(DueEras(plantType)) |->
                        EraEvent("timetravel:era-unlocked",
                                 SetToSeq(DueEras(plantType))[i], "", NoRequirement)],
                     0, "", 0)
    /\ UNCHANGED <<now, updateTimer, plantVars, pulses, flight, currentEra, previousEra,
                   timeCurrentEra, isTraveling, travelCooldown, travelPc, travelTarget,
                   tick, shadow>>

\* the store that a run starts from: setupNewGame, or a save that a run wrote
\* after green-thumb had unlocked and every plot had been harvested
NewGame ==
    [run |-> "new", seeds |-> ("prehistoric-moss" :> InitialMossSeeds) @@
                              ("lotus-egyptian" :> 0) @@ (GoldenRose :> 0),
     pulses |-> NewGamePulses, achievements |-> {}, experience |-> 0]

SavedGame ==
    [run |-> "restored", seeds |-> ("prehistoric-moss" :> GamePlots) @@
                                   ("lotus-egyptian" :> 0) @@ (GoldenRose :> 1),
     pulses |-> 170, achievements |-> {"first-plant", "green-thumb"},
     experience |-> 110]

Stores == {NewGame, SavedGame}

\* ------------------------------------------------------------------ EventBus
\* One topic of an EventBus.  A listener's id is the value of
\* listenerIdCounter at its registration.  What a callback does when it is
\* invoked is an input: it returns, it throws, or it calls
\* removeAllListeners on its own topic and returns; so is what the onError of
\* its options does.  asOnce records that the caller asked for a once
\* listener; the listener object of the code has no such field.
Priorities == {0, 1}
Handlers ==
    {[callback |-> "returns", onError |-> "none"],
     [callback |-> "removeAll", onError |-> "none"],
     [callback |-> "throws", onError |-> "none"],
     [callback |-> "throws", onError |-> "returns"],
     [callback |-> "throws", onError |-> "throws"]}
Options == [priority : Priorities, once : BOOLEAN]

NoBus == [listeners |-> <<>>, listenerIdCounter |-> 0, op |-> "none", id |-> 0,
          invoked |-> <<>>, value |-> FALSE, threw |-> FALSE,
          promise |-> "none", waiter |-> 0, timeoutId |-> FALSE]

ListenerIds(listeners) == {listeners[i].id : i \in 1..Len(listeners)}

\* the listener goes behind every listener whose priority is not lower
RECURSIVE insertByPriority(_, _)
insertByPriority(sorted, listener) ==
    IF sorted = <<>> THEN <<listener>>
    ELSE IF Head(sorted).priority >= listener.priority
         THEN <<Head(sorted)>> \o insertByPriority(Tail(sorted), listener)
         ELSE <<listener>> \o sorted

sortUnchanged(listeners) == listeners

\* listeners.sort((a, b) => b.priority - a.priority), a stable sort
RECURSIVE sortByPriority(_)
sortByPriority(listeners) ==
    IF listeners = <<>> THEN <<>>
    ELSE insertByPriority(sortByPriority(SubSeq(listeners, 1, Len(listeners) - 1)),
                          listeners[Len(listeners)])

\* on(event, callback, options): options.once is not read
on(handler, options) ==
    LET listenerId == eventBus.listenerIdCounter + 1
        listener == [id |-> listenerId, callback |-> handler.callback, once |-> FALSE,
                     priority |-> options.priority, onError |-> handler.onError,
                     asOnce |-> options.once]
    IN  /\ listenerId <= MaxRegistrations
        /\ eventBus' = [eventBus EXCEPT
              !.listeners = sortByPriority(Append(@, listener)),
              !.listenerIdCounter = listenerId,
              !.op = "on", !.id = listenerId,
              !.invoked = <<>>, !.value = FALSE, !.threw = FALSE]

\* once(event, callback, options)
once(handler, options) == on(handler, [options EXCEPT !.once = TRUE])

removeListener(listeners, listenerId) == SelectSeq(listeners, LAMBDA l : l.id # listenerId)

\* off(event, listenerId)
off(listenerId) ==
    eventBus' = [eventBus EXCEPT
        !.listeners = removeListener(@, listenerId),
        !.op = "off", !.id = listenerId, !.invoked = <<>>,
        !.value = listenerId \in ListenerIds(eventBus.listeners), !.threw = FALSE]

\* removeAllListeners(event)
removeAllListeners ==
    eventBus' = [eventBus EXCEPT
        !.listeners = <<>>, !.op = "removeAllListeners", !.id = 0, !.invoked = <<>>,
        !.value = eventBus.listeners # <<>>, !.threw = FALSE]

\* the loop of emit over listenersCopy; an error thrown by onError leaves it
RECURSIVE invokeListeners(_, _)
invokeListeners(listenersCopy, run) ==
    IF listenersCopy = <<>> \/ run.threw THEN run
    ELSE LET listener == Head(listenersCopy)
             removed == IF listener.once THEN removeListener(run.listeners, listener.id)
                        ELSE run.listeners
         IN  invokeListeners(Tail(listenersCopy),
                [listeners |-> IF listener.callback = "removeAll" THEN <<>>
                               ELSE IF listener.callback = "resolves"
                                    THEN removeListener(removed, listener.id)
                                    ELSE removed,
                 invoked |-> Append(run.invoked, listener.id),
                 handled |-> run.handled \/ listener.callback # "throws",
                 threw |-> listener.callback = "throws" /\ listener.onError = "throws"])

\* emit(event, ...args)
emit ==
    LET run == invokeListeners(eventBus.listeners,
                  [listeners |-> eventBus.listeners, invoked |-> <<>>,
                   handled |-> FALSE, threw |-> FALSE])
        resolves == \E i \in 1..Len(run.invoked) : run.invoked[i] = eventBus.waiter
    IN  eventBus' = [eventBus EXCEPT
            !.listeners = run.listeners, !.op = "emit", !.id = 0,
            !.invoked = run.invoked,
            !.value = run.handled /\ ~run.threw, !.threw = run.threw,
            !.promise = IF resolves /\ @ = "pending" THEN "resolved" ELSE @,
            !.timeoutId = IF resolves THEN FALSE ELSE @]

\* waitFor(event, timeout): the promise is pending (resolved and rejected once
\* it is settled; resolve and reject on a settled promise do nothing), waiter
\* is the id of its listener, whose callback runs cleanup and resolves, and
\* timeoutId tells that its timer is set
waitFor ==
    LET listenerId == eventBus.listenerIdCounter + 1
        listener == [id |-> listenerId, callback |-> "resolves", once |-> FALSE,
                     priority |-> 0, onError |-> "none", asOnce |-> TRUE]
    IN  /\ eventBus.promise = "none"
        /\ listenerId <= MaxRegistrations
        /\ eventBus' = [eventBus EXCEPT
              !.listeners = sortByPriority(Append(@, listener)),
              !.listenerIdCounter = listenerId,
              !.op = "waitFor", !.id = listenerId,
              !.invoked = <<>>, !.value = FALSE, !.threw = FALSE,
              !.promise = "pending", !.waiter = listenerId, !.timeoutId = TRUE]

\* the timer of waitFor fires: cleanup, then reject
waitForTimeout ==
    /\ eventBus.timeoutId
    /\ eventBus' = [eventBus EXCEPT
          !.listeners = removeListener(@, eventBus.waiter),
          !.op = "timeout", !.id = eventBus.waiter,
          !.invoked = <<>>, !.value = FALSE, !.threw = FALSE,
          !.promise = IF @ = "pending" THEN "rejected" ELSE @,
          !.timeoutId = FALSE]

\* ---------------------------------------------------- StateManager, paths
\* A path or a pattern is the sequence of its characters: "a.b" is
\* <<"a", ".", "b">>.
Dot == "."
Star == "*"

FirstDot(chars) == CHOOSE i \in 1..Len(chars) :
                      /\ chars[i] = Dot
                      /\ \A j \in 1..(i - 1) : chars[j] # Dot

\* path.split('.')
RECURSIVE split(_)
split(chars) ==
    IF \A i \in 1..Len(chars) : chars[i] # Dot THEN <<chars>>
    ELSE <<SubSeq(chars, 1, FirstDot(chars) - 1)>>
            \o split(SubSeq(chars, FirstDot(chars) + 1, Len(chars)))

\* new RegExp(`^${regex}$`).test(path), where regex is the pattern with each
\* * replaced by ([^.]*) and each ? by ([^]); a dot of the pattern stays a
\* dot of the regular expression and stands for any one character
RECURSIVE regexTest(_, _)
regexTest(pattern, path) ==
    IF pattern = <<>> THEN path = <<>>
    ELSE IF Head(pattern) = Star
         THEN \E k \in 0..Len(path) :
                 /\ \A i \in 1..k : path[i] # Dot
                 /\ regexTest(Tail(pattern), SubSeq(path, k + 1, Len(path)))
         ELSE IF Head(pattern) \in {Dot, "?"}
              THEN path # <<>> /\ regexTest(Tail(pattern), Tail(path))
              ELSE /\ path # <<>>
                   /\ Head(path) = Head(pattern)
                   /\ regexTest(Tail(pattern), Tail(path))

\* pathMatches(path, pattern)
pathMatches(path, pattern) == regexTest(pattern, path)

\* pattern.includes('*')
includesStar(pattern) == \E i \in 1..Len(pattern) : pattern[i] = Star

\* the strings of at most n characters over an alphabet
Strings(alphabet, n) == UNION {[1..k -> alphabet] : k \in 0..n}
PathStrings == Strings({"a", Dot}, MaxPathLen) \ {<<>>}
PatternStrings == Strings({"a", Dot, Star}, MaxPatternLen) \ {<<>>}

NoProbe == [op |-> "none", path |-> <<>>, pattern |-> <<>>, value |-> FALSE]

\* one call of pathMatches(path, pattern)
pathMatchesCall(path, pattern) ==
    /\ probe.op = "none"
    /\ probe' = [op |-> "pathMatches", path |-> path, pattern |-> pattern,
                 value |-> pathMatches(path, pattern)]

\* ------------------------------------------------------------ StateManager
\* The store is a small tree of the same kinds of nodes as the game's: the
\* state object has a property a, an object with a numeric property b, and a
\* property c, an array of one number.  Objects and arrays live in a heap,
\* a sequence of cells, and are referred to by their index in it, so that
\* two holders of one object see each other's writes.  A JavaScript value is
\* a number, a reference or undefined.
Vals == {0, 1}
PathA == <<"a">>
PathAB == <<"a", Dot, "b">>
PathC == <<"c">>
Paths == {PathA, PathAB, PathC}

Num(n) == [t |-> "number", v |-> n]
Ref(r) == [t |-> "object", v |-> r]
Undefined == [t |-> "undefined", v |-> 0]

StateCell(a, c) == [kind |-> "state", a |-> a, c |-> c, n |-> 0]
ObjectCell(n) == [kind |-> "object", a |-> 0, c |-> 0, n |-> n]
ArrayCell(n) == [kind |-> "array", a |-> 0, c |-> 0, n |-> n]

\* calls lists the batchUpdate calls since the last flush in the order in
\* which they were made; the code keeps no such list.
\* options of set and of setState
DefaultOptions == [notify |-> TRUE, history |-> TRUE]

\* the constructor's fields; no call yet
NoStore ==
    [heap |-> <<StateCell(2, 3), ObjectCell(0), ArrayCell(0)>>,
     state |-> 1,
     held |-> 0,
     history |-> <<>>, historyIndex |-> -1,
     updateQueue |-> <<>>, updateTimer |-> FALSE, calls |-> <<>>,
     stateListeners |-> <<>>, subscriptions |-> 0,
     op |-> "none", path |-> <<>>, value |-> FALSE, notifications |-> <<>>]

\* current[key]
Property(heap, current, key) ==
    IF current.t # "object" THEN Undefined
    ELSE LET cell == heap[current.v]
         IN  CASE cell.kind = "state" /\ key = <<"a">> -> Ref(cell.a)
               [] cell.kind = "state" /\ key = <<"c">> -> Ref(cell.c)
               [] cell.kind = "object" /\ key = <<"b">> -> Num(cell.n)
               [] cell.kind = "array" /\ key = <<"0">> -> Num(cell.n)
               [] OTHER -> Undefined

\* the loop of get over the keys of the path
RECURSIVE walk(_, _, _)
walk(heap, current, keys) ==
    IF keys = <<>> THEN current
    ELSE IF current.t # "object" THEN Undefined
         ELSE walk(heap, Property(heap, current, Head(keys)), Tail(keys))

\* get(path)
get(sm, path) == walk(sm.heap, Ref(sm.state), split(path))

\* what a value holds, whichever object holds it: its kind and its numbers
Plain(heap, value) ==
    IF value.t = "number" THEN [kind |-> "number", content |-> <<value.v>>]
    ELSE IF value.t = "undefined" THEN [kind |-> "undefined", content |-> <<>>]
    ELSE LET cell == heap[value.v]
         IN  IF cell.kind = "state"
             THEN [kind |-> "state", content |-> <<heap[cell.a].n, heap[cell.c].n>>]
             ELSE [kind |-> cell.kind, content |-> <<cell.n>>]

\* a new object that holds what a plain value describes
FromPlain(heap, plain) ==
    LET cells == Append(Append(heap, ObjectCell(plain.content[1])),
                        ArrayCell(plain.content[2]))
    IN  [heap |-> Append(cells, StateCell(Len(heap) + 1, Len(heap) + 2)),
         value |-> Ref(Len(heap) + 3)]

\* deepClone(obj): a number is returned as it is, an array is mapped and an
\* object is copied property by property into a new object
RECURSIVE deepClone(_, _)
deepClone(heap, obj) ==
    IF obj.t # "object" THEN [heap |-> heap, value |-> obj]
    ELSE LET cell == heap[obj.v]
         IN  IF cell.kind = "state"
             THEN LET a == deepClone(heap, Ref(cell.a))
                      c == deepClone(a.heap, Ref(cell.c))
                  IN  [heap |-> Append(c.heap, StateCell(a.value.v, c.value.v)),
                       value |-> Ref(Len(c.heap) + 1)]
             ELSE [heap |-> Append(heap, cell), value |-> Ref(Len(heap) + 1)]

\* the cells that the store or its caller can reach, renumbered in the order
\* state, state.a, state.c, snapshot, snapshot.a, snapshot.c
AddCell(live, r) == IF \E i \in 1..Len(live) : live[i] = r THEN live ELSE Append(live, r)
Normalize(sm) ==
    LET heap == sm.heap
        ofState == <<sm.state, heap[sm.state].a, heap[sm.state].c>>
        live == IF sm.held = 0 THEN ofState
                ELSE AddCell(AddCell(AddCell(ofState, sm.held), heap[sm.held].a),
                             heap[sm.held].c)
        renamed(r) == CHOOSE i \in 1..Len(live) : live[i] = r
    IN  [sm EXCEPT
           !.heap = [i \in 1..Len(live) |->
                       IF heap[live[i]].kind = "state"
                       THEN StateCell(renamed(heap[live[i]].a), renamed(heap[live[i]].c))
                       ELSE heap[live[i]]],
           !.state = 1,
           !.held = IF sm.held = 0 THEN 0 ELSE renamed(sm.held)]

\* a call begins: nothing notified, nothing returned yet
Begin(sm, op, path) ==
    [sm EXCEPT !.op = op, !.path = path, !.value = FALSE, !.notifications = <<>>]

saveToHistoryUnlimited(sm) ==
    LET copy == deepClone(sm.heap, Ref(sm.state))
        kept == IF sm.historyIndex < Len(sm.history) - 1
                THEN SubSeq(sm.history, 1, sm.historyIndex + 1)
                ELSE sm.history
    IN  [sm EXCEPT !.history = Append(kept, Plain(copy.heap, copy.value)),
                   !.historyIndex = sm.historyIndex + 1]

\* saveToHistory(); history[i] of the code is history[i + 1] here.  The copy
\* is held by the history alone and is kept as the plain value it holds.
saveToHistory(sm) ==
    LET copy == deepClone(sm.heap, Ref(sm.state))
        stateCopy == Plain(copy.heap, copy.value)
        kept == IF sm.historyIndex < Len(sm.history) - 1
                THEN SubSeq(sm.history, 1, sm.historyIndex + 1)
                ELSE sm.history
        pushed == Append(kept, stateCopy)
    IN  IF Len(pushed) > historyLimit
        THEN [sm EXCEPT !.history = Tail(pushed), !.historyIndex = sm.historyIndex + 1 - 1]
        ELSE [sm EXCEPT !.history = pushed, !.historyIndex = sm.historyIndex + 1]

\* current[lastKey] = value, where the caller passes a new object {b: n} for
\* a, the number n for a.b and a new array [n] for c
Assign(heap, state, path, n) ==
    CASE path = PathAB -> [heap EXCEPT ![heap[state].a].n = n]
      [] path = PathA -> Append([heap EXCEPT ![state].a = Len(heap) + 1], ObjectCell(n))
      [] path = PathC -> Append([heap EXCEPT ![state].c = Len(heap) + 1], ArrayCell(n))

\* What a subscription's callback does when it is called is an input: it
\* returns, it unsubscribes itself, it unsubscribes the first subscription
\* that was made, or, told of a change of another path than c, it sets c.
Callbacks == {"returns", "unsubscribeSelf", "unsubscribeFirst", "sets"}

\* stateListeners.get(listenerPath), the array as it is now
listenersOf(sm, listenerPath) ==
    SelectSeq(sm.stateListeners, LAMBDA l : l.path = listenerPath)

\* listeners.splice(index, 1) in unsubscribe
unsubscribed(sm, subscriptionId) ==
    [sm EXCEPT !.stateListeners = SelectSeq(@, LAMBDA l : l.id # subscriptionId)]

\* the paths of a sequence of subscriptions, each once, in the order of the
\* first subscription to each
RECURSIVE pathsOf(_)
pathsOf(listeners) ==
    IF listeners = <<>> THEN <<>>
    ELSE LET rest == pathsOf(SubSeq(listeners, 1, Len(listeners) - 1))
             last == listeners[Len(listeners)].path
         IN  IF \E i \in 1..Len(rest) : rest[i] = last THEN rest ELSE Append(rest, last)

RECURSIVE setValue(_, _, _, _)
RECURSIVE notifyChange(_, _, _, _)
RECURSIVE notifyPatterns(_, _, _, _, _)
RECURSIVE notifyLoop(_, _, _, _, _, _, _)

\* subscription.callback(newValue, oldValue, path)
callback(sm, subscription, path) ==
    CASE subscription.callback = "unsubscribeSelf" -> unsubscribed(sm, subscription.id)
      [] subscription.callback = "unsubscribeFirst" -> unsubscribed(sm, 1)
      [] subscription.callback = "sets" /\ path # PathC ->
            setValue(sm, PathC, 1, DefaultOptions)
      [] OTHER -> sm

\* the loop of notifyListeners, for (const subscription of listeners), at
\* index k of the array as the callbacks before have left it; then the once
\* subscriptions that were called are unsubscribed
notifyLoop(sm, listenerPath, k, listenersToRemove, newValue, oldValue, path) ==
    LET listeners == listenersOf(sm, listenerPath)
    IN  IF k > Len(listeners)
        THEN [sm EXCEPT !.stateListeners =
                            SelectSeq(@, LAMBDA l : l.id \notin listenersToRemove)]
        ELSE LET subscription == listeners[k]
                 called == [sm EXCEPT !.notifications =
                               Append(@, [id |-> subscription.id, path |-> path,
                                          newValue |-> newValue, oldValue |-> oldValue])]
             IN  notifyLoop(callback(called, subscription, path), listenerPath, k + 1,
                            listenersToRemove \cup (IF subscription.once
                                                    THEN {subscription.id} ELSE {}),
                            newValue, oldValue, path)

\* notifyListeners(listeners, newValue, oldValue, path), where listeners is
\* the array of the subscriptions to listenerPath
notifyListeners(sm, listenerPath, newValue, oldValue, path) ==
    notifyLoop(sm, listenerPath, 1, {}, newValue, oldValue, path)

\* the loop of notifyChange over the paths with subscriptions
notifyPatterns(sm, patterns, newValue, oldValue, path) ==
    IF patterns = <<>> THEN sm
    ELSE notifyPatterns(
            IF includesStar(Head(patterns)) /\ pathMatches(path, Head(patterns))
            THEN notifyListeners(sm, Head(patterns), newValue, oldValue, path)
            ELSE sm,
            Tail(patterns), newValue, oldValue, path)

\* notifyChange(path, newValue, oldValue): the subscriptions to the path
\* itself, then those to a pattern with a * that pathMatches accepts
notifyChange(sm, path, newValue, oldValue) ==
    LET specific == notifyListeners(sm, path, newValue, oldValue, path)
    IN  notifyPatterns(specific, pathsOf(specific.stateListeners),
                       newValue, oldValue, path)

\* notifyGlobalChange(): the subscriptions to '*' get the state object twice
notifyGlobalChange(sm) ==
    notifyListeners(sm, <<Star>>, Plain(sm.heap, Ref(sm.state)),
                    Plain(sm.heap, Ref(sm.state)), <<Star>>)

\* set(path, value, options)
setValue(sm, path, n, options) ==
    LET saved == IF options.history THEN saveToHistory(sm) ELSE sm
        oldValue == Plain(saved.heap, get(saved, path))
        written == [saved EXCEPT !.heap = Assign(saved.heap, saved.state, path, n)]
        newValue == Plain(written.heap, get(written, path))
    IN  IF options.notify THEN notifyChange(written, path, newValue, oldValue)
        ELSE written

set(path, n) ==
    stateManager' = Normalize(setValue(Begin(stateManager, "set", path), path, n,
                                       DefaultOptions))

\* updateQueue.set(path, {value, options}): a path that is queued keeps its
\* place in the Map
queueSet(updateQueue, path, n) ==
    IF \E i \in 1..Len(updateQueue) : updateQueue[i].path = path
    THEN [i \in 1..Len(updateQueue) |->
            IF updateQueue[i].path = path THEN [path |-> path, n |-> n]
            ELSE updateQueue[i]]
    ELSE Append(updateQueue, [path |-> path, n |-> n])

\* batchUpdate({path: value}) while batchUpdates is true: the write is queued
\* and the timer is set anew
batchUpdate(path, n) ==
    stateManager' = [Begin(stateManager, "batchUpdate", path) EXCEPT
                        !.updateQueue = queueSet(@, path, n),
                        !.updateTimer = TRUE,
                        !.calls = Append(@, [path |-> path, n |-> n])]

\* the loop of processUpdateQueue over the Map
RECURSIVE applyQueue(_, _)
applyQueue(sm, updateQueue) ==
    IF updateQueue = <<>> THEN sm
    ELSE applyQueue(setValue(sm, Head(updateQueue).path, Head(updateQueue).n,
                             [notify |-> FALSE, history |-> FALSE]),
                    Tail(updateQueue))

\* the timer of batchUpdate fires: processUpdateQueue()
processUpdateQueue ==
    /\ stateManager.updateTimer
    /\ stateManager.updateQueue # <<>>
    /\ LET begun == Begin(stateManager, "processUpdateQueue", <<>>)
           applied == applyQueue(saveToHistory(begun), begun.updateQueue)
       IN  stateManager' = Normalize([notifyGlobalChange(applied) EXCEPT
                                         !.updateQueue = <<>>,
                                         !.updateTimer = FALSE,
                                         !.calls = <<>>])

\* subscribe(path, callback, options), with options.once or without
\* options, while fewer than limit subscriptions were made
subscribeCallback(path, isOnce, behaviour, limit) ==
    /\ stateManager.subscriptions < limit
    /\ stateManager' = [Begin(stateManager, "subscribe", path) EXCEPT
          !.stateListeners = Append(@, [id |-> stateManager.subscriptions + 1,
                                        path |-> path, once |-> isOnce,
                                        callback |-> behaviour]),
          !.subscriptions = @ + 1]

\* subscribe with a callback that returns
subscribe(path, isOnce) == subscribeCallback(path, isOnce, "returns", MaxSubscriptions)

\* unsubscribe(subscriptionId)
unsubscribe(subscriptionId) ==
    stateManager' = [Begin(stateManager, "unsubscribe", <<>>) EXCEPT
        !.stateListeners = SelectSeq(@, LAMBDA l : l.id # subscriptionId),
        !.value = \E i \in 1..Len(stateManager.stateListeners) :
                      stateManager.stateListeners[i].id = subscriptionId]

\* the state becomes a deep clone of a snapshot of the history
restore(sm, snapshot) ==
    LET built == FromPlain(sm.heap, snapshot)
        clone == deepClone(built.heap, built.value)
    IN  [sm EXCEPT !.heap = clone.heap, !.state = clone.value.v]

\* undo()
undo ==
    LET begun == Begin(stateManager, "undo", <<>>)
    IN  IF stateManager.historyIndex <= 0 THEN stateManager' = begun
        ELSE stateManager' =
                Normalize([notifyGlobalChange(
                              restore([begun EXCEPT !.historyIndex = @ - 1],
                                      begun.history[begun.historyIndex]))
                           EXCEPT !.value = TRUE])

\* redo(): the store after the call
redoCall(sm) ==
    LET begun == Begin(sm, "redo", <<>>)
    IN  IF sm.historyIndex >= Len(sm.history) - 1
        THEN begun
        ELSE Normalize([notifyGlobalChange(
                           restore([begun EXCEPT !.historyIndex = @ + 1],
                                   begun.history[begun.historyIndex + 2]))
                        EXCEPT !.value = TRUE])

redo == stateManager' = redoCall(stateManager)

getStateShared ==
    stateManager' = [Begin(stateManager, "getState", <<>>) EXCEPT
                        !.held = stateManager.state]

\* getState(): the caller holds what is returned
getState ==
    LET begun == Begin(stateManager, "getState", <<>>)
        clone == deepClone(begun.heap, Ref(begun.state))
    IN  stateManager' = Normalize([begun EXCEPT !.heap = clone.heap,
                                                !.held = clone.value.v])

\* setState(newState) with the object that the caller holds
setState ==
    /\ stateManager.held # 0
    /\ LET saved == saveToHistory(Begin(stateManager, "setState", <<>>))
           clone == deepClone(saved.heap, Ref(saved.held))
       IN  stateManager' =
              Normalize(notifyGlobalChange([saved EXCEPT !.heap = clone.heap,
                                                          !.state = clone.value.v]))

\* the caller writes snapshot.a.b = n into the object that getState returned
writeSnapshot(n) ==
    /\ stateManager.held # 0
    /\ stateManager' =
          [Begin(stateManager, "writeSnapshot", PathAB) EXCEPT
              !.heap = [@ EXCEPT ![stateManager.heap[stateManager.held].a].n = n]]

\* ------------------------------------------------------------ specifications
\* the two library objects after their constructors
LibInit ==
    /\ eventBus = NoBus
    /\ stateManager = NoStore
    /\ probe = NoProbe

Init ==
    /\ now = Epoch
    /\ plots = [p \in PlotIds |-> DefaultPlot]
    /\ activePlants = <<>>
    /\ seeds = ("prehistoric-moss" :> InitialMossSeeds) @@ ("lotus-egyptian" :> 0)
    /\ pulses = InitialPulses
    /\ growthMultiplier = InitialGrowthMultiplier
    /\ updateTimer = 0
    /\ currentEra = "prehistoric"
    /\ previousEra = ""
    /\ timeCurrentEra = "prehistoric"
    /\ isTraveling = FALSE
    /\ travelCooldown = 0
    /\ unlocked = {e \in EraIds : eras[e].unlocked}
    /\ travelPc = "idle"
    /\ travelTarget = ""
    /\ flight = NoFlight
    /\ ret = NoRet
    /\ tick = NoTick
    /\ shadow = [p \in PlotIds |-> DefaultPlot]
    /\ game = NoGame
    /\ LibInit

PlotArgs == PlotIds \cup {UnknownPlot}
SeedArgs == Species \cup {UnknownSpecies}
EraArgs == EraIds \cup {UnknownEra}
\* durations passed to accelerateGrowth, in seconds
Durations == {10}

\* the plant engine driven by the game loop and the player
Next ==
    \/ \E p \in PlotArgs, s \in SeedArgs : plantSeed(p, s) /\ UNCHANGED aux
    \/ \E p \in PlotArgs : waterPlant(p) /\ UNCHANGED aux
    \/ \E p \in PlotArgs, b \in BonusPercents : harvestPlant(p, b) /\ UNCHANGED aux
    \/ \E p \in PlotArgs, d \in Durations : accelerateGrowth(p, d) /\ UNCHANGED aux
    \/ plantUpdate /\ UNCHANGED aux
    \/ \E e \in EraIds : onEraChanged(e) /\ UNCHANGED aux
    \/ AdvanceTime /\ UNCHANGED aux

Spec == Init /\ [][Next]_vars

\* the travel machine alone
NextTravel ==
    \/ \E e \in EraArgs : travelTo(e) /\ UNCHANGED aux
    \/ TravelCommit /\ UNCHANGED aux
    \/ TravelEffectsError /\ UNCHANGED aux
    \/ TravelCommitError /\ UNCHANGED aux
    \/ \E e \in EraArgs : unlockEra(e) /\ UNCHANGED aux
    \/ \E d \in DeltaTimes : travelUpdate(d) /\ UNCHANGED aux

SpecTravel == Init /\ [][NextTravel]_vars

\* the eras and the frame time of the runs with plants
FlightEras == {"prehistoric", "egyptian"}
FlightDeltaTimes == {5}

\* a run may start another travel
FlightsLeft == pulses > InitialPulses - MaxFlights * TemporalPulseCost

\* the plant engine and the travel machine side by side
NextFlight ==
    \/ \E p \in PlotIds, s \in Species : plantSeed(p, s) /\ UNCHANGED aux
    \/ \E p \in PlotIds : waterPlant(p) /\ UNCHANGED aux
    \/ \E p \in PlotIds, b \in BonusPercents : harvestPlant(p, b) /\ UNCHANGED aux
    \/ \E p \in PlotIds, d \in Durations : accelerateGrowth(p, d) /\ UNCHANGED aux
    \/ plantUpdate /\ UNCHANGED aux
    \/ AdvanceTime /\ UNCHANGED aux
    \/ \E e \in FlightEras : FlightsLeft /\ travelTo(e) /\ UNCHANGED aux
    \/ TravelCommit /\ UNCHANGED aux
    \/ TravelEffectsError /\ UNCHANGED aux
    \/ TravelCommitError /\ UNCHANGED aux
    \/ \E e \in FlightEras : unlockEra(e) /\ UNCHANGED aux
    \/ \E d \in FlightDeltaTimes : travelUpdate(d) /\ UNCHANGED aux

SpecFlight == Init /\ [][NextFlight]_vars

\* the plant engine with listeners that call back into it during a tick
NextReentrant ==
    \/ \E p \in PlotArgs, s \in Species : Callable /\ plantSeed(p, s) /\ UNCHANGED aux
    \/ \E p \in PlotArgs : Callable /\ waterPlant(p) /\ UNCHANGED aux
    \/ \E p \in PlotArgs, b \in BonusPercents : ListenerHarvest(p, b) /\ UNCHANGED <<game, lib>>
    \/ \E p \in PlotArgs, d \in Durations : Callable /\ accelerateGrowth(p, d) /\ UNCHANGED aux
    \/ ListenerUpdate /\ UNCHANGED <<game, lib>>
    \/ TickBegin /\ UNCHANGED <<game, lib>>
    \/ TickVisit /\ UNCHANGED <<game, lib>>
    \/ TickCommit /\ UNCHANGED <<game, lib>>
    \/ TickEnd /\ UNCHANGED <<game, lib>>
    \/ tick.pc = "idle" /\ AdvanceTime /\ UNCHANGED aux

SpecReentrant == Init /\ [][NextReentrant]_vars

\* two runs with the same clock and the same player calls
NextPair ==
    \/ \E p \in PlotArgs, s \in Species : PairPlantSeed(p, s) /\ UNCHANGED <<game, lib>>
    \/ \E p \in PlotArgs : PairWaterPlant(p) /\ UNCHANGED <<game, lib>>
    \/ \E p \in PlotArgs, d \in Durations : PairAccelerateGrowth(p, d) /\ UNCHANGED <<game, lib>>
    \/ TickFirst
    \/ TickBoth /\ UNCHANGED <<game, lib>>
    \/ \E e \in EraIds : onEraChanged(e) /\ UNCHANGED aux
    \/ AdvanceTime /\ UNCHANGED aux

SpecPair == Init /\ [][NextPair]_vars

\* the assembled game after ChronoFarmer.init: the systems were initialised
\* from the default store, then loadGameData put a new game or a save in it
InitGame ==
    /\ now = Epoch
    /\ plots = [p \in GamePlotIds |-> DefaultPlot]
    /\ activePlants = <<>>
    /\ \E store \in Stores :
          /\ seeds = store.seeds
          /\ pulses = store.pulses
          /\ game = [NoGame EXCEPT !.run = store.run,
                                   !.playerAchievements = store.achievements,
                                   !.experience = store.experience,
                                   !.applied = [a \in AchievementIds |->
                                                  IF a \in store.achievements THEN 1 ELSE 0]]
    /\ growthMultiplier = InitialGrowthMultiplier
    /\ updateTimer = 0
    /\ currentEra = "prehistoric"
    /\ previousEra = ""
    /\ timeCurrentEra = "prehistoric"
    /\ isTraveling = FALSE
    /\ travelCooldown = 0
    /\ unlocked = {e \in EraIds : eras[e].unlocked}
    /\ travelPc = "idle"
    /\ travelTarget = ""
    /\ flight = NoFlight
    /\ ret = NoRet
    /\ tick = NoTick
    /\ shadow = [p \in PlotIds |-> DefaultPlot]
    /\ LibInit

\* the player clicks the first empty plot or the first plot of the grid
FirstEmpty ==
    {p \in GamePlotIds : /\ plots[p].state = "empty"
                         /\ \A q \in GamePlotIds : q < p => plots[q].state # "empty"}
ClickTargets == FirstEmpty \cup {0}
\* the seed selected in the side panel
GameSeeds == {"prehistoric-moss", GoldenRose}

\* planting in the assembled game
NextGame ==
    \/ \E p \in ClickTargets \cup {UnknownGamePlot}, s \in GameSeeds :
          gamePlantSeed(p, s, "direct") /\ UNCHANGED lib
    \/ \E p \in ClickTargets, s \in GameSeeds :
          gamePlantSeed(p, s, "click") /\ UNCHANGED lib
    \/ onPlantPlanted /\ UNCHANGED lib
    \/ consumeSeed /\ UNCHANGED lib

SpecGame == InitGame /\ [][NextGame]_vars

\* minigames and era unlocks in the assembled game
NextRewards ==
    \/ \E score \in Scores : minigameCompleted(TRUE, MinigameRewards(score)) /\ UNCHANGED lib
    \/ minigameCompleted(FALSE, NoRewards) /\ UNCHANGED lib
    \/ \E e \in EraArgs : gameUnlockEra(e) /\ UNCHANGED lib
    \/ \E s \in Species : checkEraUnlocks(s) /\ UNCHANGED lib

SpecRewards == InitGame /\ [][NextRewards]_vars

\* an EventBus with one topic, driven by its callers
NextBus ==
    \/ \E h \in Handlers, o \in Options : on(h, o) /\ UNCHANGED <<gameVars, stateManager, probe>>
    \/ \E h \in Handlers, o \in Options : once(h, o) /\ UNCHANGED <<gameVars, stateManager, probe>>
    \/ \E i \in 1..MaxRegistrations : off(i) /\ UNCHANGED <<gameVars, stateManager, probe>>
    \/ removeAllListeners /\ UNCHANGED <<gameVars, stateManager, probe>>
    \/ emit /\ UNCHANGED <<gameVars, stateManager, probe>>

SpecBus == Init /\ [][NextBus]_vars

\* a topic with listeners and one waitFor
NextWait ==
    \/ \E handler \in Handlers, options \in Options :
          on(handler, options) /\ UNCHANGED <<gameVars, stateManager, probe>>
    \/ waitFor /\ UNCHANGED <<gameVars, stateManager, probe>>
    \/ waitForTimeout /\ UNCHANGED <<gameVars, stateManager, probe>>
    \/ removeAllListeners /\ UNCHANGED <<gameVars, stateManager, probe>>
    \/ emit /\ UNCHANGED <<gameVars, stateManager, probe>>

SpecWait == Init /\ [][NextWait]_vars

\* pathMatches applied to one path and one pattern
NextMatch ==
    /\ probe.op = "none"
    /\ \E path \in PathStrings, pattern \in PatternStrings :
          pathMatchesCall(path, pattern) /\ UNCHANGED <<gameVars, eventBus, stateManager>>

SpecMatch == Init /\ [][NextMatch]_vars

\* a StateManager driven by its callers, one of whom keeps the object that
\* getState returned
BatchCallsLeft == Len(stateManager.calls) < MaxBatchCalls
NextStore ==
    \/ \E path \in Paths, n \in Vals : set(path, n) /\ UNCHANGED <<gameVars, eventBus, probe>>
    \/ \E n \in Vals : BatchCallsLeft /\ batchUpdate(PathAB, n)
                          /\ UNCHANGED <<gameVars, eventBus, probe>>
    \/ processUpdateQueue /\ UNCHANGED <<gameVars, eventBus, probe>>
    \/ undo /\ UNCHANGED <<gameVars, eventBus, probe>>
    \/ redo /\ UNCHANGED <<gameVars, eventBus, probe>>
    \/ getState /\ UNCHANGED <<gameVars, eventBus, probe>>
    \/ setState /\ UNCHANGED <<gameVars, eventBus, probe>>
    \/ \E n \in Vals : writeSnapshot(n) /\ UNCHANGED <<gameVars, eventBus, probe>>

SpecStore == Init /\ [][NextStore]_vars

\* a StateManager with subscribers, written to directly and in batches
SubscriptionPaths == {PathAB, PathC, <<"a", Dot, Star>>, <<Star>>}
WritesLeft == Len(stateManager.history) < MaxWrites
NextBatch ==
    \/ \E path \in SubscriptionPaths, isOnce \in BOOLEAN :
          subscribe(path, isOnce) /\ UNCHANGED <<gameVars, eventBus, probe>>
    \/ \E i \in 1..MaxSubscriptions : unsubscribe(i) /\ UNCHANGED <<gameVars, eventBus, probe>>
    \/ \E path \in Paths, n \in Vals :
          WritesLeft /\ set(path, n) /\ UNCHANGED <<gameVars, eventBus, probe>>
    \/ \E path \in Paths, n \in Vals :
          BatchCallsLeft /\ batchUpdate(path, n) /\ UNCHANGED <<gameVars, eventBus, probe>>
    \/ WritesLeft /\ processUpdateQueue /\ UNCHANGED <<gameVars, eventBus, probe>>

SpecBatch == Init /\ [][NextBatch]_vars

\* a StateManager whose subscribers act when they are called
MaxSubscribers == 3
NotifyPaths == {PathAB, PathC}
NextNotify ==
    \/ \E path \in NotifyPaths, isOnce \in BOOLEAN, behaviour \in Callbacks :
          /\ subscribeCallback(path, isOnce, behaviour, MaxSubscribers)
          /\ UNCHANGED <<gameVars, eventBus, probe>>
    \/ \E i \in 1..MaxSubscribers : unsubscribe(i) /\ UNCHANGED <<gameVars, eventBus, probe>>
    \/ \E path \in Paths, n \in Vals :
          WritesLeft /\ set(path, n) /\ UNCHANGED <<gameVars, eventBus, probe>>

SpecNotify == Init /\ [][NextNotify]_vars

\* ------------------------------------------------------------------ claims
Occupying == {"planted", "growing", "ready"}
Moss == "prehistoric-moss"

\* C1: whenever no tick is under way, every plot has a plant exactly when its
\* state is planted, growing or ready -- also after listeners of the tick's
\* events have called back into the engine
C1_PlotOccupancy ==
    tick.pc = "idle" =>
        \A p \in PlotIds : (plots[p].plant # NoPlant) <=> (plots[p].state \in Occupying)

\* C2: a travelTo that returned false left the temporal-pulses balance and
\* currentEra as they were when it was called
C2_FailedTravelChangesNothing ==
    (ret.op = "travelTo" /\ ret.value = "false") =>
        (pulses = ret.pulses0 + ret.credited /\ currentEra = ret.era0)

\* C3: a travelTo issued while a travel is in flight returns false and leaves
\* the balance, the travel in flight and every travel field alone; the end of a
\* travel, by success or by error, clears isTraveling; and isTraveling is set
\* exactly while a travel is in flight
C3_OneTravelInFlight ==
    [][/\ \A e \in EraArgs :
             (isTraveling /\ travelTo(e)) =>
                 /\ ret'.value = "false"
                 /\ pulses' = pulses
                 /\ UNCHANGED <<travelVars, flight>>
       /\ (TravelCommit \/ TravelEffectsError \/ TravelCommitError) => ~ isTraveling'
       /\ isTraveling' <=> (travelPc' # "idle")]_vars

\* a travelTo was rejected while another one was suspended in its effects
C3_Witness ==
    /\ travelPc = "effects"
    /\ isTraveling
    /\ ret.op = "travelTo"
    /\ ret.value = "false"
    /\ pulses = flight.pulses0 - TemporalPulseCost

FailureEvents ==
    {"timetravel:locked", "timetravel:insufficient-resources", "timetravel:cooldown",
     "timetravel:error"}

\* C4: a travelTo that returned false emitted one of the failure events
C4_FailedTravelEmitsEvent ==
    (ret.op = "travelTo" /\ ret.value = "false") =>
        \E i \in DOMAIN ret.events : ret.events[i].name \in FailureEvents

LockedEvent(e) == EraEvent("timetravel:locked", e, "", eras[e].unlockRequirement)

C7_StageNeverDecreases ==
    [][\A p \in PlotIds :
          (plantUpdate /\ plots[p].state \in {"planted", "growing"}) =>
              plots'[p].growthStage >= plots[p].growthStage]_vars

\* a tick computed a stage below the stored one for a plot that is still planted
C7_Witness ==
    /\ ret.op = "updatePlants"
    /\ ret.num > 0
    /\ \E p \in PlotIds : plots[p].state = "planted" /\ plots[p].growthStage > 0

\* the progress the tick computes for a plot of a run
TickProgress(ps, p) == calculateGrowth(ps[p], ps[p].plant, growthMultiplier, now).progress

\* C8: when two runs with the same plantings and player calls tick at the same
\* time, the tick computes the same progress and leaves the same growthStage
\* and state in both, however many ticks one of them missed before
C8_TickCountDoesNotMatter ==
    [][TickBoth =>
          \A p \in ActiveIds :
              /\ (plots[p].state = "planted" /\ shadow[p].state = "planted") =>
                     TickProgress(plots, p) = TickProgress(shadow, p)
              /\ plots'[p].growthStage = shadow'[p].growthStage
              /\ plots'[p].state = shadow'[p].state]_vars

\* C9: the percentage accelerateGrowth returns is the progress calculateGrowth
\* gives for the plot, with its new plantedAt, at the time of the call
C9_AccelerateReportsTickProgress ==
    (ret.op = "accelerateGrowth" /\ ret.value = "number") =>
        ret.num * (FactorScale \div 100)
            = calculateGrowth(plots[ret.plot], plots[ret.plot].plant,
                              growthMultiplier, now).progress

\* a plot as plantSeed leaves it
FreshPlot(p) ==
    /\ plots[p].state = "planted"
    /\ plots[p].plant = Moss
    /\ plots[p].waterLevel = PlantedWater
    /\ plots[p].nutrients = PlantedNutrients
    /\ plots[p].growthStage = 0

\* the tick runs on a fresh moss plot one growTime after planting, multiplier 1.0
FreshTickAtGrowTime(p) ==
    /\ plantUpdate
    /\ FreshPlot(p)
    /\ growthMultiplier = InitialGrowthMultiplier
    /\ now = plots[p].plantedAt + plantData[Moss].growTime

\* C10, as stated: that tick computes progress 1.0 and stage 3 and makes the
\* plot ready
C10_FreshMossReadyAtGrowTime ==
    [][\A p \in PlotIds :
          FreshTickAtGrowTime(p) =>
              LET g == calculateGrowth(plots[p], Moss, growthMultiplier, now)
              IN  /\ g.progress = ProgressDen(Moss)
                  /\ g.newStage = 3
                  /\ g.isReady
                  /\ plots'[p].growthStage = 3
                  /\ plots'[p].state = "ready"]_vars

\* C10, amended: that tick computes progress 0.8 and stage 2 and leaves the
\* plot planted
C10_FreshMossFourFifthsAtGrowTime ==
    [][\A p \in PlotIds :
          FreshTickAtGrowTime(p) =>
              LET g == calculateGrowth(plots[p], Moss, growthMultiplier, now)
              IN  /\ g.progress * 5 = ProgressDen(Moss) * 4
                  /\ g.newStage = 2
                  /\ ~ g.isReady
                  /\ plots'[p].growthStage = 2
                  /\ plots'[p].state = "planted"]_vars

\* the first tick of a moss plot came one growTime after planting and stored
\* stage 2
C10_Witness ==
    \E p \in PlotIds :
        /\ ret.op = "updatePlants"
        /\ plots[p].plant = Moss
        /\ plots[p].state = "planted"
        /\ now = plots[p].plantedAt + plantData[Moss].growTime
        /\ plots[p].lastWatered = plots[p].plantedAt
        /\ plots[p].waterLevel = PlantedWater - plantData[Moss].growTime * WaterDecayRate
        /\ plots[p].nutrients = PlantedNutrients - plantData[Moss].growTime * NutrientDecayRate
        /\ plots[p].growthStage = 2

\* the emissions of topic name in the events of the last call
Emitted(name) == {i \in DOMAIN ret.events : ret.events[i].name = name}

\* C11: when plantSeed returns true, the plot is planted with a plant of the
\* seed's type, waterLevel 100, nutrients 80 and growthStage 0, exactly one
\* plant:planted was emitted, and the player holds exactly one seed of that type
\* less than before the call
C11_PlantSeedSuccess ==
    [][game.pc = "emit" /\ game'.pc # "emit" =>
          /\ plots'[game.plotId].state = "planted"
          /\ plots'[game.plotId].plant = game.seedType
          /\ plots'[game.plotId].waterLevel = PlantedWater
          /\ plots'[game.plotId].nutrients = PlantedNutrients
          /\ plots'[game.plotId].growthStage = 0
          /\ Cardinality(Emitted("plant:planted")') = 1
          /\ seeds'[game.seedType] = game.seeds0 - 1]_vars

\* the precondition of plantSeed does not hold
PlantSeedFails(plotId, seedType) ==
    \/ plotId \notin DOMAIN plots
    \/ plots[plotId].state # "empty"
    \/ SeedCount(seedType) <= 0
    \/ seedType \notin Catalog

\* C12: a plantSeed on an occupied or nonexistent plot, with no seed of the
\* type or with an unknown species returns false, emits no plant:planted, and
\* leaves the plots, the seeds, the resources and the active plants as they were
C12_PlantSeedFailure ==
    [][\A p \in PlotArgs, s \in SeedArgs :
          plantSeed(p, s) /\ PlantSeedFails(p, s) =>
             /\ ret'.value = "false"
             /\ Emitted("plant:planted")' = {}
             /\ UNCHANGED <<plots, seeds, pulses, activePlants>>]_vars

\* a plantSeed on the occupied plot has just failed
C12_Witness ==
    /\ ret.op = "plantSeed"
    /\ ret.value = "false"
    /\ ret.plot \in PlotIds
    /\ plots[ret.plot].state \in Occupying
    /\ Emitted("plant:error") # {}

\* C13: every failing plantSeed, waterPlant, harvestPlant or accelerateGrowth
\* returns the boolean false and has emitted an error event
C13_FailuresReturnFalseAndEmitError ==
    ret.op \in {"plantSeed", "waterPlant", "harvestPlant", "accelerateGrowth"}
       /\ ret.value \notin {"true", "number"}
    => ret.value = "false" /\ Emitted("plant:error") # {}

\* C14: harvestPlant succeeds only on a ready plot; a success leaves the plot
\* empty with no plant, waterLevel 50, nutrients 50 and growthStage 0 and out of
\* the active plants; on a plot in any other state it returns false and changes
\* neither the plot nor the inventory
C14_HarvestOnlyWhenReady ==
    [][\A p \in PlotArgs, b \in BonusPercents :
          harvestPlant(p, b) =>
             /\ ret'.value = "true" =>
                   /\ p \in PlotIds /\ plots[p].state = "ready"
                   /\ plots'[p].state = "empty"
                   /\ plots'[p].plant = NoPlant
                   /\ plots'[p].waterLevel = ResidualLevel
                   /\ plots'[p].nutrients = ResidualLevel
                   /\ plots'[p].growthStage = 0
                   /\ p \notin ActiveIds'
             /\ (p \notin PlotIds \/ plots[p].state # "ready") =>
                   /\ ret'.value = "false"
                   /\ UNCHANGED <<plots, seeds, pulses>>]_vars

\* a ready plot has just been harvested
C14_Witness ==
    /\ ret.op = "harvestPlant"
    /\ ret.value = "true"
    /\ plots[ret.plot].state = "empty"
    /\ activePlants = <<>>

\* C15: a successful harvest of a plant whose yield has b temporal-pulses adds
\* a whole number from floor(0.75 b) to floor(1.25 b) to the balance, the
\* number that the plant:harvested event carries
C15_HarvestCreditInRange ==
    [][\A p \in PlotIds, b \in BonusPercents :
          harvestPlant(p, b) /\ ret'.value = "true" =>
             LET base == plantData[plots[p].plant].pulses
             IN  /\ pulses' - pulses >= (75 * base) \div 100
                 /\ pulses' - pulses <= (125 * base) \div 100
                 /\ pulses' - pulses = ret'.num
                 /\ Emitted("plant:harvested")' # {}]_vars

\* a harvest has credited the most that the bonus allows
C15_Witness ==
    /\ ret.op = "harvestPlant"
    /\ ret.value = "true"
    /\ ret.num = (125 * plantData[Moss].pulses) \div 100

\* C16: every resource counter and every seed counter of the inventory is a
\* non-negative integer
C16_InventoryNonNegative ==
    /\ pulses >= 0
    /\ game.essence >= 0
    /\ \A s \in DOMAIN seeds : seeds[s] >= 0

\* the number of times era e is in player.unlockedEras
TimesListed(list, e) == Cardinality({i \in DOMAIN list : list[i] = e})

\* C17: an unlocked era stays unlocked, and a later unlockEra, checkEraUnlocks
\* or minigame:completed neither emits timetravel:era-unlocked for it nor
\* lists it in player.unlockedEras again
C17_UnlockOnce ==
    [][\A e \in EraIds :
          e \in unlocked =>
             /\ e \in unlocked'
             /\ \A i \in DOMAIN ret'.events :
                   ~(ret'.events[i].name = "timetravel:era-unlocked"
                     /\ ret'.events[i].era = e)
             /\ TimesListed(game'.unlockedEras, e) = TimesListed(game.unlockedEras, e)
             /\ TimesListed(game'.unlockedEras, e) <= 1]_vars

\* unlockEra was called for an era that was unlocked earlier in the run
C17_Witness ==
    /\ ret.op = "unlockEra"
    /\ ret.era = "egyptian"
    /\ ret.events = <<>>
    /\ "egyptian" \in unlocked
    /\ TimesListed(game.unlockedEras, "egyptian") = 1

\* C18: the reward of an achievement reaches the inventory at most once, also
\* when the run restored a save that records the achievement
C18_RewardAppliedOnce ==
    \A a \in AchievementIds : game.applied[a] <= 1

\* C19: the listeners of achievement:unlocked find the reward of the
\* achievement already in the store
C19_RewardBeforeUnlockEvent ==
    [][game'.unlock # game.unlock =>
          /\ game'.unlock.experience = game'.experience
          /\ game'.unlock.pulses = pulses'
          /\ game'.unlock.goldenRose = seeds'[GoldenRose]]_vars

\* C20: a successful minigame:completed credits the rewards it carries once,
\* an unsuccessful one credits nothing
C20_MinigameCreditedOnce ==
    [][ret'.op = "minigame:completed" =>
          IF ret'.value = "true"
          THEN /\ pulses' = pulses + ret'.credited
               /\ seeds' = AddSeeds(seeds, Moss, ret'.num)
          ELSE UNCHANGED <<pulses, seeds>>]_vars

\* C21: a listener registered as once is not registered any more after an
\* emission that invoked it, so no later emission invokes it again.
C21_OnceListenerRemoved ==
    [][eventBus'.op = "emit" =>
         \A i \in 1..Len(eventBus.listeners) :
            LET listener == eventBus.listeners[i]
            IN  (listener.asOnce /\ listener.id \in {eventBus'.invoked[k] : k \in 1..Len(eventBus'.invoked)})
                   => listener.id \notin ListenerIds(eventBus'.listeners)]_vars

\* the priority a listener of the bus was registered with
PriorityOf(listeners, listenerId) ==
    LET i == CHOOSE j \in 1..Len(listeners) : listeners[j].id = listenerId
    IN  listeners[i].priority

\* C26: an emission invokes the topic's listeners in descending priority, and
\* listeners of equal priority in the order of their registration.
C26_PriorityOrder ==
    [][eventBus'.op = "emit" =>
         \A i, j \in 1..Len(eventBus'.invoked) :
            i < j =>
              LET a == eventBus'.invoked[i]
                  b == eventBus'.invoked[j]
              IN  \/ PriorityOf(eventBus.listeners, a) > PriorityOf(eventBus.listeners, b)
                  \/ /\ PriorityOf(eventBus.listeners, a) = PriorityOf(eventBus.listeners, b)
                     /\ a < b]_vars
\* the third listener registered runs before the second, the first was removed
C26_Witness ==
    /\ eventBus.op = "emit"
    /\ eventBus.invoked = <<3, 2>>
    /\ eventBus.listenerIdCounter = 3

\* C27: when a listener throws, emit still invokes every listener that was
\* registered at its start, does not throw, and returns true exactly when some
\* listener returned.
C27_ThrowingListenerIsolated ==
    [][(eventBus'.op = "emit"
        /\ \E i \in 1..Len(eventBus.listeners) : eventBus.listeners[i].callback = "throws")
       => /\ ~eventBus'.threw
          /\ ListenerIds(eventBus.listeners) = {eventBus'.invoked[i] : i \in 1..Len(eventBus'.invoked)}
          /\ eventBus'.value =
                (\E i \in 1..Len(eventBus.listeners) :
                    eventBus.listeners[i].callback # "throws")]_vars

\* the segments of a pattern match those of a path: as many of them, and each
\* one of the pattern is * or equal to the path's
SegmentsMatch(path, pattern) ==
    /\ Len(split(pattern)) = Len(split(path))
    /\ \A i \in 1..Len(split(pattern)) :
          \/ split(pattern)[i] = <<Star>>
          \/ split(pattern)[i] = split(path)[i]

\* C23: pathMatches accepts a path for a pattern exactly when both have the
\* same number of dot-separated segments and every segment of the pattern is
\* * or equal to the path's segment.
C23_PathMatchesBySegments ==
    probe.op = "pathMatches" =>
        (probe.value <=> SegmentsMatch(probe.path, probe.pattern))

\* the numbers that the store holds: <<a.b, c[0]>>
Content(sm) == Plain(sm.heap, Ref(sm.state)).content
\* the value that get returns for a path
Value(sm, path) == Plain(sm.heap, get(sm, path))

\* C22: when a batch is flushed, every subscriber whose path or pattern
\* matches a queued path is notified for that path with its new and its old
\* value, as a direct set would notify it.
C22_FlushNotifiesSubscribers ==
    [][stateManager'.op = "processUpdateQueue" =>
         \A i \in 1..Len(stateManager.stateListeners),
            k \in 1..Len(stateManager.updateQueue) :
            LET subscription == stateManager.stateListeners[i]
                written == stateManager.updateQueue[k].path
            IN  (\/ subscription.path = written
                 \/ includesStar(subscription.path)
                      /\ SegmentsMatch(written, subscription.path))
                  => \E j \in 1..Len(stateManager'.notifications) :
                        LET notification == stateManager'.notifications[j]
                        IN  /\ notification.id = subscription.id
                            /\ notification.path = written
                            /\ notification.newValue = Value(stateManager', written)
                            /\ notification.oldValue = Value(stateManager, written)]_vars

\* the store's numbers after direct sets made in the order of the calls
RECURSIVE Sequentially(_, _)
Sequentially(content, calls) ==
    IF calls = <<>> THEN content
    ELSE Sequentially(IF Head(calls).path = PathC
                      THEN <<content[1], Head(calls).n>>
                      ELSE <<Head(calls).n, content[2]>>,
                      Tail(calls))

\* C24: a batchUpdate call leaves what get returns as it was; the flush takes
\* one history snapshot, of the state before the batch, and leaves the store
\* as the queued calls, made one after the other, would have left it, with
\* nothing left in the queue.
C24_BatchAppliedInOneFlush ==
    [][/\ stateManager'.op = "batchUpdate" =>
            /\ \A path \in Paths : Value(stateManager', path) = Value(stateManager, path)
            /\ stateManager'.history = stateManager.history
       /\ stateManager'.op = "processUpdateQueue" =>
            /\ Content(stateManager') = Sequentially(Content(stateManager), stateManager.calls)
            /\ stateManager'.history =
                  Append(stateManager.history, Plain(stateManager.heap, Ref(stateManager.state)))
            /\ stateManager'.updateQueue = <<>>]_vars

\* C25: the history never holds more than historyLimit snapshots and
\* historyIndex stays between -1 and the last index; undo at the first
\* snapshot and redo at the last one return false and change nothing.
C25_HistoryBounded ==
    /\ [](/\ Len(stateManager.history) <= historyLimit
          /\ -1 <= stateManager.historyIndex
          /\ stateManager.historyIndex <= Len(stateManager.history) - 1)
    /\ [][(/\ stateManager'.op \in {"undo", "redo"}
           /\ stateManager'.op = "undo" => stateManager.historyIndex <= 0
           /\ stateManager'.op = "redo" =>
                 stateManager.historyIndex >= Len(stateManager.history) - 1)
          => /\ ~stateManager'.value
             /\ Content(stateManager') = Content(stateManager)
             /\ stateManager'.history = stateManager.history
             /\ stateManager'.historyIndex = stateManager.historyIndex]_vars
\* undo has just returned false at the first of historyLimit snapshots
C25_Witness ==
    /\ stateManager.op = "undo"
    /\ ~stateManager.value
    /\ Len(stateManager.history) = historyLimit
    /\ stateManager.historyIndex = 0
    /\ stateManager.history[1].content # <<0, 0>>

\* the objects and arrays that can be reached from an object
Reachable(sm, r) == {r, sm.heap[r].a, sm.heap[r].c}
SharesStructure(sm) ==
    /\ sm.held # 0
    /\ Reachable(sm, sm.held) \cap Reachable(sm, sm.state) # {}

\* C28: setState(getState()) leaves the value of every path as it was, and
\* the object that getState returned shares no object or array with the
\* store, so that a write into it leaves the store as it was.
C28_SnapshotRoundTrip ==
    /\ [](~SharesStructure(stateManager))
    /\ [][(stateManager.op = "getState" /\ stateManager'.op = "setState")
          => \A path \in Paths : Value(stateManager', path) = Value(stateManager, path)]_vars
    /\ [][stateManager'.op = "writeSnapshot"
          => \A path \in Paths : Value(stateManager', path) = Value(stateManager, path)]_vars
\* a snapshot of a store that was written to has just been put back
C28_Witness ==
    /\ stateManager.op = "setState"
    /\ stateManager.held # 0
    /\ Content(stateManager) = <<1, 1>>
    /\ Plain(stateManager.heap, Ref(stateManager.held)).content = <<1, 1>>

\* C29: a successful harvest of a plant raises by one the harvest count of
\* its species, the count that checkEraUnlocks compares with an era's
\* requirement.
C29_HarvestRaisesCount ==
    [][\A p \in PlotArgs, b \in BonusPercents :
          (harvestPlant(p, b) /\ ret'.value = "true")
             => getHarvestCount(plots[p].plant)' = getHarvestCount(plots[p].plant) + 1]_vars

\* the extra seeds that calculateHarvestRewards may add to the base yield
SeedBonuses == {0, 1}

\* C30: a successful harvest adds to the player's seeds of the harvested
\* species the base yield of the species plus a bonus of 0 or 1.
C30_HarvestCreditsSeeds ==
    [][\A p \in PlotArgs, b \in BonusPercents :
          (harvestPlant(p, b) /\ ret'.value = "true")
             => \E seedBonus \in SeedBonuses :
                   seeds'[plots[p].plant] =
                      seeds[plots[p].plant] + plantData[plots[p].plant].seeds + seedBonus]_vars

\* the distance between two levels
Distance(a, b) == IF a >= b THEN a - b ELSE b - a

\* C31: after a tick a planted plot's nutrients are the planted level less
\* the decay of the time since plantedAt, and the water of a plot not watered
\* since it was planted is the planted level less the decay of the time since
\* lastWatered, both up to the update threshold and not below 0; a second
\* tick at the same instant changes no plot.
C31_DecayByElapsedTime ==
    [][plantUpdate =>
         /\ \A p \in PlotIds :
               plots'[p].plant # NoPlant =>
                  /\ Distance(plots'[p].nutrients,
                              Max(0, PlantedNutrients
                                       - NutrientDecayRate * (now - plots'[p].plantedAt)))
                        <= DecayThreshold
                  /\ plots'[p].lastWatered = plots'[p].plantedAt =>
                        Distance(plots'[p].waterLevel,
                                 Max(0, PlantedWater
                                          - WaterDecayRate * (now - plots'[p].lastWatered)))
                           <= DecayThreshold
         /\ TickFrom(plots', 1, now).plots = plots']_vars

\* ------------------------------------------------ the running game loop
\* seconds between two frames of the growth run, the length of the run, and
\* the time after which the player neither plants nor waters
GrowthStep == 20
GrowthHorizon == 4000
LastAction == 100

\* a frame of the running loop, GrowthStep seconds after the last one:
\* update(deltaTime) adds the frame's time to updateTimer, which reaches
\* updateInterval, runs updatePlants at the new time and resets the timer
Frame ==
    LET t == now + GrowthStep
        r == TickFrom(plots, 1, t)
    IN  /\ t <= Epoch + GrowthHorizon
        /\ now' = t
        /\ plots' = r.plots
        /\ updateTimer' = 0
        /\ ret' = Ret("updatePlants", NoPlot, "", Cardinality(r.regressed), r.events)
        /\ UNCHANGED <<activePlants, seeds, growthMultiplier, pulses, flight, travelVars>>

\* ------------------------------------------------------ a session of play
\* what SaveSystem.load returns: null, or the farm and the inventory that an
\* earlier session saved right after planting plot 0, GrowthStep seconds
\* before this session began
NoSave == [saved |-> FALSE, plots |-> [p \in PlotIds |-> DefaultPlot],
           seeds |-> ("prehistoric-moss" :> InitialMossSeeds) @@ ("lotus-egyptian" :> 0),
           pulses |-> NewGamePulses]
PlantedSave ==
    [saved |-> TRUE,
     plots |-> [p \in PlotIds |->
                  IF p = 0 THEN PlantedPlot(DefaultPlot, "prehistoric-moss", Epoch - GrowthStep)
                  ELSE DefaultPlot],
     seeds |-> ("prehistoric-moss" :> (InitialMossSeeds - 1)) @@ ("lotus-egyptian" :> 0),
     pulses |-> NewGamePulses]
Saves == {NoSave, PlantedSave}

\* loadGameData, step 4 of ChronoFarmer.init, after initializeGameSystems
\* has run PlantSystem.init on the default store: setState(savedData) or
\* setupNewGame() replaces the store; the main menu follows
loadGameData(savedData) ==
    /\ game.run = "none"
    /\ plots' = savedData.plots
    /\ seeds' = savedData.seeds
    /\ pulses' = savedData.pulses
    /\ game' = [game EXCEPT !.run = IF savedData.saved THEN "restored" ELSE "new",
                            !.pc = "menu"]
    /\ ret' = NoRet
    /\ UNCHANGED <<now, activePlants, growthMultiplier, updateTimer, flight, travelVars,
                   tick, shadow, lib>>

\* startNewGame, the new-game button of the main menu: stateManager.reset()
\* and setupNewGame()
startNewGame ==
    /\ game.pc = "menu"
    /\ plots' = NoSave.plots
    /\ seeds' = NoSave.seeds
    /\ pulses' = NoSave.pulses
    /\ game' = [game EXCEPT !.run = "new", !.pc = "idle"]
    /\ ret' = NoRet
    /\ UNCHANGED <<now, activePlants, growthMultiplier, updateTimer, flight, travelVars,
                   tick, shadow, lib>>

\* continueGame, the continue button of the main menu
continueGame ==
    /\ game.pc = "menu"
    /\ game' = [game EXCEPT !.pc = "idle"]
    /\ ret' = NoRet
    /\ UNCHANGED <<now, plots, activePlants, seeds, growthMultiplier, updateTimer, pulses, flight,
                   travelVars, tick, shadow, lib>>

\* the game engine runs from step 6 of ChronoFarmer.init on
Running == game.run # "none"
\* the player plants and waters once the menu is left, early in the run
PlayerActs == game.run # "none" /\ game.pc = "idle" /\ now <= Epoch + LastAction

NextSession ==
    \/ \E savedData \in Saves : loadGameData(savedData)
    \/ startNewGame
    \/ continueGame
    \/ PlayerActs /\ \E p \in PlotArgs, s \in SeedArgs : plantSeed(p, s) /\ UNCHANGED aux
    \/ PlayerActs /\ \E p \in PlotArgs : waterPlant(p) /\ UNCHANGED aux
    \/ Running /\ \E p \in PlotArgs : harvestPlant(p, 100) /\ UNCHANGED aux
    \/ Running /\ \E e \in EraIds : onEraChanged(e) /\ UNCHANGED aux
    \/ Running /\ Frame /\ UNCHANGED aux

\* the clock moves on by one frame; in NextSession only Frame moves the
\* clock, so these are the steps of Frame
FrameElapses ==
    /\ Running
    /\ now + GrowthStep <= Epoch + GrowthHorizon
    /\ now' = now + GrowthStep

\* the boot sequence goes on to load the game
Boots == \E savedData \in Saves : loadGameData(savedData)

\* the boot sequence completes, and requestAnimationFrame keeps calling the
\* loop: frames keep coming while the run lasts
SpecSession ==
    Init /\ [][NextSession]_vars /\ WF_vars(Boots) /\ WF_now(FrameElapses)

\* C32: while the loop runs and time advances, every plot in state planted
\* or growing eventually reaches state ready, watered or not.
C32_GrowthNeverStalls ==
    \A p \in PlotIds :
        (plots[p].state \in {"planted", "growing"}) ~> (plots[p].state = "ready")

\* C38: once the game is loaded, the plots held in activePlants are the
\* plots of the store whose plant is not null.
C38_ActivePlantsMatchStore ==
    Running => ActiveIds = {p \in PlotIds : plots[p].plant # NoPlant}

\* C33: a committed travel sets the cooldown to the minimum travel interval
\* and update takes each deltaTime off it down to 0, so it is above 0 exactly
\* until update has been fed the interval; while it is above 0 every travelTo
\* returns false and leaves the pulses alone; once it is 0 a travelTo that
\* meets the other preconditions is accepted; the cooldown is never negative.
C33_CooldownGatesTravel ==
    /\ [](travelCooldown >= 0)
    /\ [][/\ TravelCommit => travelCooldown' = MinTravelInterval
          /\ \A d \in DeltaTimes :
                travelUpdate(d) =>
                   travelCooldown' = IF travelCooldown >= d THEN travelCooldown - d ELSE 0
          /\ \A e \in EraArgs :
                travelTo(e) /\ travelCooldown > 0 =>
                   /\ ret'.op = "travelTo" /\ ret'.value = "false"
                   /\ pulses' = pulses
                   /\ ~isTraveling'
          /\ \A e \in EraArgs :
                (/\ travelTo(e)
                 /\ travelCooldown = 0
                 /\ ~isTraveling
                 /\ e \in unlocked
                 /\ e # currentEra
                 /\ pulses >= TemporalPulseCost) =>
                   /\ isTraveling'
                   /\ travelTarget' = e
                   /\ pulses' = pulses - TemporalPulseCost]_vars

\* a travelTo that meets every other precondition has just been rejected
\* during the cooldown of an earlier travel
C33_Witness ==
    /\ ret.op = "travelTo"
    /\ ret.value = "false"
    /\ previousEra # ""
    /\ travelCooldown > 0
    /\ travelCooldown < MinTravelInterval
    /\ ~isTraveling
    /\ ret.era \in unlocked
    /\ ret.era # currentEra
    /\ pulses >= TemporalPulseCost

\* the call that has just returned emitted the event for the plot
EmittedFor(r, name, p) == \E i \in DOMAIN r.events : r.events[i] = Ev(name, p)

\* plant:ready is out for the plot: the plot is ready, or the tick that
\* emitted it is suspended in its emit and has not written the plot yet
ReadyOut(p) ==
    \/ plots[p].state = "ready"
    \/ tick.pc = "emitted" /\ tick.plotId = p /\ "state" \in DOMAIN tick.updates

StateOf(sm) == Plain(sm.heap, Ref(sm.state))

\* C35: set saves the state it finds as the last snapshot of the history, and
\* an undo called right after a set returns true and puts that state back.
C35_UndoRestoresStateBeforeSet ==
    /\ [][stateManager'.op = "set" =>
             stateManager'.history[Len(stateManager'.history)] = StateOf(stateManager)]_vars
    /\ [][(stateManager.op = "set" /\ stateManager'.op = "undo") =>
             /\ stateManager'.value
             /\ StateOf(stateManager') = stateManager.history[Len(stateManager.history)]]_vars

\* C36: a redo called right after an undo that returned true returns true and
\* puts back the state that the store held before the undo.
C36_RedoRestoresStateBeforeUndo ==
    [][(stateManager'.op = "undo" /\ stateManager'.value) =>
          /\ redoCall(stateManager').value
          /\ StateOf(redoCall(stateManager')) = StateOf(stateManager)]_vars

\* C37: an emission that finds the promise of waitFor pending and its
\* listener registered resolves it, and the timer rejects a pending promise;
\* a settled promise stays as it is, its listener is registered no more and
\* its timer is cleared.
C37_WaitForSettlesOnce ==
    /\ [](eventBus.promise \in {"resolved", "rejected"} =>
             /\ eventBus.waiter \notin ListenerIds(eventBus.listeners)
             /\ ~eventBus.timeoutId)
    /\ [][/\ (/\ eventBus'.op = "emit"
              /\ eventBus.promise = "pending"
              /\ eventBus.waiter \in ListenerIds(eventBus.listeners)) =>
                 eventBus'.promise = "resolved"
          /\ (eventBus'.op = "timeout" /\ eventBus.promise = "pending") =>
                 eventBus'.promise = "rejected"
          /\ eventBus.promise \in {"resolved", "rejected"} =>
                 eventBus'.promise = eventBus.promise]_vars

\* C39: whenever no travel is in flight, the growth multiplier of the plant
\* engine is the growthMultiplier effect of the current era.
C39_MultiplierOfCurrentEra ==
    (~isTraveling /\ travelPc = "idle") =>
        growthMultiplier = eras[currentEra].growthMultiplier


\* the calls of a subscription's callback for a change of a path, in a call
CallsFor(sm, id, path) ==
    {j \in 1..Len(sm.notifications) :
        sm.notifications[j].id = id /\ sm.notifications[j].path = path}

\* C40: when a set notifies the subscribers of its path, every subscription
\* to that path at the start of the call is called exactly once for the
\* change, whatever the callbacks do while the notification runs
\* (unsubscribing themselves or another subscriber, setting another path).
C40_EverySubscriberCalledOnce ==
    [][stateManager'.op = "set" =>
         \A i \in 1..Len(stateManager.stateListeners) :
            LET subscription == stateManager.stateListeners[i]
            IN  subscription.path = stateManager'.path
                  => Cardinality(CallsFor(stateManager', subscription.id,
                                          stateManager'.path)) = 1]_vars

====
